---- MODULE Spec2Model ----
(***************************************************************************)
(* Model of scripts/cancel_subscriptions.py: the bulk cancel / validate /   *)
(* revoke batch driver, its retry executor, error classifier, checkpoint    *)
(* files and audit log.                                                      *)
(*                                                                         *)
(* Python strings are modelled as sequences of one-character strings, so    *)
(* that strip(), lower(), substring tests and the line-oriented checkpoint  *)
(* file format are computed the way the code computes them.                 *)
(***************************************************************************)
EXTENDS Integers, Sequences, FiniteSets, TLC

\* ------------------------------------------------------------------ bounds
\* Longest input file, in rows.
MaxRows == 2
\* Largest non-negative --retries value explored.
MaxRetries == 1
\* Longest message, in fragments, given to the classifier.
MaxFrags == 2
\* Longest input file given to the sampler, in rows.
MaxSampleRows == 4
\* Largest sample size given to the sampler.
MaxSample == 3
\* Rows of the input of the end-to-end scenario.
ScenarioRows == 3

\* ------------------------------------------------------- string primitives
UpperChars == <<"A", "B", "C", "D", "E", "F", "G", "H", "I", "J", "K", "L", "M",
                "N", "O", "P", "Q", "R", "S", "T", "U", "V", "W", "X", "Y", "Z">>
LowerChars == <<"a", "b", "c", "d", "e", "f", "g", "h", "i", "j", "k", "l", "m",
                "n", "o", "p", "q", "r", "s", "t", "u", "v", "w", "x", "y", "z">>

\* str.lower() on one character.
LowerChar(c) ==
    IF \E i \in 1..Len(UpperChars) : UpperChars[i] = c
    THEN LowerChars[CHOOSE i \in 1..Len(UpperChars) : UpperChars[i] = c]
    ELSE c

\* str.lower()
Lower(s) == [i \in 1..Len(s) |-> LowerChar(s[i])]

\* Characters str.strip() removes (the ones that occur in the inputs).
IsSpace(c) == c \in {" ", "\n"}

RECURSIVE LStrip(_)
LStrip(s) == IF s # <<>> /\ IsSpace(Head(s)) THEN LStrip(Tail(s)) ELSE s

RECURSIVE RStrip(_)
RStrip(s) ==
    IF s # <<>> /\ IsSpace(s[Len(s)]) THEN RStrip(SubSeq(s, 1, Len(s) - 1)) ELSE s

\* str.strip()
Strip(s) == RStrip(LStrip(s))

\* Python's "pat in s" on strings.
Contains(s, pat) ==
    \E i \in 1..(Len(s) - Len(pat) + 1) : SubSeq(s, i, i + Len(pat) - 1) = pat

\* The file's lines, as the iteration "for line in fh" yields them (the
\* terminating newline of each line dropped; Strip removes it in the code).
RECURSIVE SplitLines(_)
SplitLines(s) ==
    IF s = <<>> THEN <<>>
    ELSE IF \E i \in 1..Len(s) : s[i] = "\n"
         THEN LET i == CHOOSE k \in 1..Len(s) :
                           s[k] = "\n" /\ \A j \in 1..(k - 1) : s[j] # "\n"
              IN <<SubSeq(s, 1, i - 1)>> \o SplitLines(SubSeq(s, i + 1, Len(s)))
         ELSE <<s>>

\* ------------------------------------------------------------- constants
RETRY_STATUS == {429, 500, 503}

\* Python's None for optional fields.
None == "None"

\* --------------------------------------------------------------- classifier
sAlready == <<"a", "l", "r", "e", "a", "d", "y">>
sCancel == <<"c", "a", "n", "c", "e", "l">>
sNotFound == <<"n", "o", "t", " ", "f", "o", "u", "n", "d">>
sPermission == <<"p", "e", "r", "m", "i", "s", "s", "i", "o", "n">>
sForbidden == <<"f", "o", "r", "b", "i", "d", "d", "e", "n">>

\* Variant: the message is not lower-cased before it is searched.
classify_error_NoLower(message) ==
    IF Contains(message, sAlready) /\ Contains(message, sCancel) THEN "already_cancelled"
    ELSE IF Contains(message, sNotFound) THEN "not_found"
    ELSE IF Contains(message, sPermission) \/ Contains(message, sForbidden) THEN "permission"
    ELSE "other"

classify_error(message) ==
    LET lowered == Lower(message) IN
    IF Contains(lowered, sAlready) /\ Contains(lowered, sCancel) THEN "already_cancelled"
    ELSE IF Contains(lowered, sNotFound) THEN "not_found"
    ELSE IF Contains(lowered, sPermission) \/ Contains(lowered, sForbidden) THEN "permission"
    ELSE "other"


\* ----------------------------------------------------------------- inputs
\* Variant: a paused subscription is not eligible.
ELIGIBLE_STATES_NoPaused ==
    {"SUBSCRIPTION_STATE_ACTIVE", "SUBSCRIPTION_STATE_IN_GRACE_PERIOD",
     "SUBSCRIPTION_STATE_ON_HOLD"}

\* Variant: a row without a subscription state counts as eligible.
ELIGIBLE_STATES_OrNone ==
    {"SUBSCRIPTION_STATE_ACTIVE", "SUBSCRIPTION_STATE_IN_GRACE_PERIOD",
     "SUBSCRIPTION_STATE_ON_HOLD", "SUBSCRIPTION_STATE_PAUSED", None}

ELIGIBLE_STATES == {"SUBSCRIPTION_STATE_ACTIVE", "SUBSCRIPTION_STATE_IN_GRACE_PERIOD",
                    "SUBSCRIPTION_STATE_ON_HOLD", "SUBSCRIPTION_STATE_PAUSED"}

Modes == {"cancel", "validate", "revoke-prorated"}

\* http_status=None of a result.
NoStatus == 0

\* message=None of a result (no string of the inputs is this one).
NoMessage == <<"None">>

\* payload=None of a result, and the payloads get() returns.
NoPayload == [present |-> FALSE, subscriptionState |-> None]
\* The subscriptionState values of the payloads get() returns; None for a
\* payload that carries none.
SubscriptionStates ==
    {"SUBSCRIPTION_STATE_ACTIVE", "SUBSCRIPTION_STATE_IN_GRACE_PERIOD",
     "SUBSCRIPTION_STATE_ON_HOLD", "SUBSCRIPTION_STATE_PAUSED",
     "SUBSCRIPTION_STATE_EXPIRED", None}
Payloads == [present : {TRUE}, subscriptionState : SubscriptionStates]

\* Raw purchaseToken cells of the CSV: empty, padded, and one holding a line
\* break inside (a quoted CSV field may hold one).
RawTokens == {<<>>, <<" ", "a">>, <<"a", "\n", "b">>}

\* Raw package cells of the CSV.
RawPackages == {<<"p">>}

\* Raw package cells of a CSV whose package column varies: empty, blank, the
\* run-level package padded, and another package.
PackageCells == {<<>>, <<" ">>, <<"p", " ">>, <<"q">>}

\* Rows of such a CSV, the token empty or not.
PackageRows == [token : {<<>>, <<" ", "a">>}, package : PackageCells]

Rows == [token : RawTokens, package : RawPackages]

\* Header rows of the CSV.
AllColumns == {"purchaseToken", "package", "subscription_state"}
Headers == {AllColumns, AllColumns \ {"purchaseToken"}}

\* HttpError values the API client raises: the response status, the message
\* of the JSON error body (empty when the body has none or does not parse)
\* and str(err).
HttpErrors ==
    { [status |-> 404, body |-> <<"N", "o", "t", " ", "F", "o", "u", "n", "d">>,
       text |-> <<"E", "4", "0", "4">>],
      [status |-> 503, body |-> <<>>, text |-> <<"E", "5", "0", "3">>],
      [status |-> 429,
       body |-> <<"a", "l", "r", "e", "a", "d", "y", " ", "c", "a", "n", "c", "e", "l", "l", "e", "d">>,
       text |-> <<"E", "4", "2", "9">>],
      [status |-> 400,
       body |-> <<"A", "l", "r", "e", "a", "d", "y", " ", "c", "a", "n", "c", "e", "l", "e", "d">>,
       text |-> <<"E", "4", "0", "0">>] }

\* str(err) of the other exceptions a call raises.
ExceptionTexts == {<<"b", "o", "o", "m">>}

\* The sequences over S of length at most n.
SeqUpTo(S, n) == UNION {[1..k -> S] : k \in 0..n}

RetriesDomain == {-2, -1} \cup (0..MaxRetries)

\* --max-rows: not given (0), or one less than the longest file.
MaxRowsDomain == {0, MaxRows - 1}

\* --package-name: not given (empty), or a package.
PackageArgs == {<<>>, <<"p">>}

\* --log: not given (the empty path), or a path.
LogArgs == {<<>>, <<"audit.jsonl">>}

ArgsDomain ==
    [mode : Modes, dry_run : BOOLEAN, retries : RetriesDomain,
     max_rows : MaxRowsDomain, package_name : PackageArgs,
     checkpoint_success : BOOLEAN, checkpoint_failed : BOOLEAN,
     log : LogArgs, timestamp_logs : BOOLEAN]

\* The command lines with a package name, --no-timestamp-logs and no --log.
CoreArgs ==
    {a \in ArgsDomain : a.package_name # <<>> /\ a.log = <<>> /\ ~a.timestamp_logs}

\* What the success checkpoint file holds before the first invocation.
PriorCheckpoints == {<<>>, <<"a", "\n">>}

\* ------------------------------------------------------------------ state
VARIABLES
    args,              \* the parsed command line (fixed for all invocations)
    fieldnames,        \* the CSV header
    rows,              \* the CSV rows
    success_file,      \* contents of the success checkpoint file
    failed_file,       \* contents of the failure checkpoint file
    log_file,          \* records of the audit log of this invocation
    eligible_file,     \* rows of the eligible export of this invocation
    ineligible_file,   \* rows of the ineligible export of this invocation
    run_no,            \* which invocation this is
    pc,                \* position of the invocation in run()
    exit_code,         \* value run() returned
    idx,               \* enumerate index of the row in hand
    token,             \* stripped token of the row in hand
    package_name,      \* resolved package of the row in hand
    totals,            \* the run totals
    processed_tokens,  \* in-memory success set
    attempt,           \* loop variable of the retry executor
    result,            \* result returned by the retry executor
    response,          \* what the last remote call returned or raised
    remote_calls,      \* remote calls made in this invocation, per token
    inv_calls,         \* remote calls made by the executor invocation in hand
    inv_sleeps,        \* sleeps made by the executor invocation in hand
    loaded_tokens,     \* what load_checkpoint returned at the start
    run_success,       \* tokens whose row ended in success in this invocation
    prev_success,      \* the same, of the previous invocation
    backoff,           \* the --backoff option, in quarters of a second
    jitter,            \* the --jitter option, in quarters of a second
    delays,            \* the sleeps of the executor invocation in hand
    checkpointed,      \* tokens this invocation appended to the success checkpoint
    prev_checkpointed, \* the same, of the previous invocation
    log_path,          \* path of the audit log this invocation opened
    logs,              \* the closed log files on disk, by path
    service,           \* the API client: None, built, or build_service raised
    executor,          \* the retry executor the row in hand was dispatched to
    verbs,             \* remote verbs invoked in this invocation
    sample_size,       \* sampler: the sample size asked for
    sample_i,          \* sampler: enumerate index of the last row read
    reservoir,         \* sampler: the reservoir
    outcomes,          \* sampler: draw sequences so far, counted by reservoir
    argv,              \* config merge: the options typed on the command line
    cfg,               \* config merge: the object of the config file
    namespace,         \* config merge: the argparse Namespace
    cfg_keys,          \* config merge: keys of cfg the loop has yet to visit
    cls_err,           \* classifier in isolation: the HttpError raised
    cls_result         \* classifier in isolation: the failure returned for it

vars == <<args, fieldnames, rows, success_file, failed_file, log_file, eligible_file,
          ineligible_file, run_no, pc, exit_code, idx, token, package_name, totals,
          processed_tokens, attempt, result, remote_calls, inv_calls, inv_sleeps,
          loaded_tokens, run_success, prev_success, response, cls_err, cls_result,
          log_path, logs, service, executor, verbs, sample_size, sample_i, reservoir, outcomes,
          argv, cfg, namespace, cfg_keys, checkpointed, prev_checkpointed,
          backoff, jitter, delays>>

\* The pacing options of the executor.
pacing_vars == <<backoff, jitter>>

\* The tokens acknowledged in the success checkpoint.
ack_vars == <<checkpointed, prev_checkpointed>>

\* The config merge's frame.
config_vars == <<argv, cfg, namespace, cfg_keys>>

\* The audit log files.
log_vars == <<log_path, logs>>

\* The dispatch of the row in hand and the verbs it led to.
dispatch_vars == <<executor, verbs>>

\* The sampler's frame.
sample_vars == <<sample_size, sample_i, reservoir, outcomes>>

\* What an invocation keeps in memory and in its own output files.
run_vars == <<log_file, eligible_file, ineligible_file, idx, token, package_name, totals,
              processed_tokens, attempt, result, remote_calls, inv_calls, inv_sleeps, delays,
              loaded_tokens, response>>

input_vars == <<args, fieldnames, rows, cls_err, cls_result, config_vars, pacing_vars>>

\* Stripped, non-empty tokens of the input domain.
Tokens == {Strip(t) : t \in RawTokens} \ {<<>>}

ZeroTotals == [processed |-> 0, success |-> 0, already_cancelled |-> 0,
               failed_transient |-> 0, failed_permanent |-> 0, dry_run |-> 0,
               skipped |-> 0]

NoResult == [status |-> "none", attempts |-> 0, http_status |-> NoStatus,
             message |-> NoMessage, error_type |-> None, payload |-> NoPayload]

NoResponse == [kind |-> "none", status |-> NoStatus, message |-> NoMessage]

NoError == [status |-> NoStatus, body |-> <<>>, text |-> <<>>]


\* ---------------------------------------------------------------- helpers
\* Pick the first candidate that is a column of the header, else None.
RECURSIVE choose_field(_, _)
choose_field(names, candidates) ==
    IF candidates = <<>> THEN None
    ELSE IF Head(candidates) # "" /\ Head(candidates) \in names THEN Head(candidates)
    ELSE choose_field(names, Tail(candidates))

\* The candidate lists run() builds, the column options at their defaults.
token_candidates == <<"purchaseToken", "purchaseToken", "purchase_token", "token">>
package_candidates == <<"package", "package">>

\* The client run() holds after its first statement: none in a dry run, else
\* what build_service returned, or the mark that it raised.
build_service(dry_run, built) ==
    IF dry_run THEN None ELSE IF built THEN "service" ELSE "raised"

\* Variant: the subscription_state column is not required in any mode.
HeaderError_TokenOnly(names, mode) == choose_field(names, token_candidates) = None

\* validate_headers raises ValueError.
HeaderError(names, mode) ==
    \/ choose_field(names, token_candidates) = None
    \/ mode = "revoke-prorated" /\ "subscription_state" \notin names

\* Tokens of the checkpoint file: its stripped, non-empty lines.
load_checkpoint(configured, contents) ==
    IF ~configured THEN {}
    ELSE LET lines == SplitLines(contents)
         IN {Strip(lines[i]) : i \in 1..Len(lines)} \ {<<>>}

append_checkpoint(contents, t) == contents \o t \o <<"\n">>

\* Variant: the run-level package, when given, goes before the row's.
pick_package_FallbackFirst(row, package_field, fallback) ==
    IF fallback # <<>> THEN fallback
    ELSE IF package_field # None /\ row.package # <<>> THEN Strip(row.package)
    ELSE fallback

\* Resolve the package from the row, else the run-level one.
pick_package(row, package_field, fallback) ==
    IF package_field # None /\ row.package # <<>> THEN Strip(row.package) ELSE fallback

\* strftime("%Y%m%d_%H%M%S") of a clock reading, the clock counted in seconds.
Stamps == <<"t1", "t2">>
strftime(now) == Stamps[now]

\* What datetime.now() can return: the first invocation starts in second 1,
\* the next one in the same second or in a later one.
ClockReadings == IF run_no = 1 THEN {1} ELSE {1, 2}

\* run_stamp=None when the logs are not timestamped.
NoStamp == ""

\* The path of the audit log, as its components.
build_log_path(mode, path, timestamp_logs, stamp, now) ==
    IF path # <<>> THEN path
    ELSE IF timestamp_logs /\ stamp # NoStamp
    THEN <<"logs", stamp, mode, "_log_", stamp, ".jsonl">>
    ELSE IF timestamp_logs
    THEN <<"logs", strftime(now), mode, "_log_", strftime(now), ".jsonl">>
    ELSE <<"logs", mode, "_log", ".jsonl">>

\* The stamp and log path run() computes when the clock reads now.
run_stamp(now) == IF args.timestamp_logs THEN strftime(now) ELSE NoStamp
RunLogPath(now) ==
    build_log_path(args.mode, args.log, args.timestamp_logs, run_stamp(now), now)

\* open(path, "w"): the file is created or truncated; it is the open log from
\* then on and is not among the closed files.
OpenForWrite(fs, path) == [q \in DOMAIN fs \ {path} |-> fs[q]]

\* The "with" statement closes the log: the file stays on disk as written.
CloseFile(fs, path, contents) ==
    [q \in DOMAIN fs \cup {path} |-> IF q = path THEN contents ELSE fs[q]]

\* (status, message) of an HttpError.
parse_http_error(err) ==
    [status |-> err.status, message |-> IF err.body # <<>> THEN err.body ELSE err.text]

\* Variant: a validate row is handed to the cancel executor.
Dispatch_ValidateCancels(mode, dry_run) ==
    IF dry_run THEN None
    ELSE IF mode = "revoke-prorated" THEN "revoke_prorated_with_retries"
    ELSE "cancel_with_retries"

\* The executor run() calls for a row, None in a dry run.
Dispatch(mode, dry_run) ==
    IF mode = "validate"
    THEN IF dry_run THEN None ELSE "get_with_retries"
    ELSE IF dry_run THEN None
    ELSE IF mode = "revoke-prorated" THEN "revoke_prorated_with_retries"
    ELSE "cancel_with_retries"

\* The verb of subscriptionsv2() each executor invokes.
Verb(exec) ==
    CASE exec = "cancel_with_retries" -> "cancel"
      [] exec = "get_with_retries" -> "get"
      [] exec = "revoke_prorated_with_retries" -> "revoke"

\* The HTTP status of a successful call of the mode's verb.
SuccessStatus(mode) == IF mode = "validate" THEN 200 ELSE 204

\* range(1, retries + 2) of the executor's loop is not empty.
LoopRuns(retries) == 1 < retries + 2

\* The executor's return after a loop that ends without returning.
FallThrough(retries) ==
    [NoResult EXCEPT !.status = "failure", !.attempts = retries + 1,
                     !.error_type = "unknown"]

\* The pre-jitter delay is off by one doubling.
BackoffDelay_FromTwo(base_backoff, att) == base_backoff * (2 ^ att)

\* The delay before the jitter is added, after failed attempt att.
BackoffDelay(base_backoff, att) == base_backoff * (2 ^ (att - 1))

\* random.uniform(0, j), in whole quarters of a second.
uniform(a, b) == a..b

\* ------------------------------------------------------------------- Init
\* --backoff 0.25 --jitter 0: the default backoff and no jitter.
PacingFixed ==
    /\ backoff = 1
    /\ jitter = 0

\* The state of an invocation at the entry of run(), whatever its inputs.
AtEntry ==
    /\ log_file = <<>>
    /\ eligible_file = <<>>
    /\ ineligible_file = <<>>
    /\ run_no = 1
    /\ exit_code = 0
    /\ idx = 0
    /\ token = <<>>
    /\ package_name = <<>>
    /\ totals = ZeroTotals
    /\ processed_tokens = {}
    /\ attempt = 0
    /\ result = NoResult
    /\ remote_calls = [t \in Tokens |-> 0]
    /\ inv_calls = 0
    /\ inv_sleeps = 0
    /\ delays = <<>>
    /\ loaded_tokens = {}
    /\ run_success = {}
    /\ prev_success = {}
    /\ checkpointed = {}
    /\ prev_checkpointed = {}
    /\ response = NoResponse
    /\ log_path = <<>>
    /\ logs = <<>>
    /\ service = None
    /\ executor = None
    /\ verbs = {}

\* The sampler before its loop.
SamplerAtEntry ==
    /\ sample_i = 0
    /\ reservoir = <<>>
    /\ outcomes = [r \in {<<>>} |-> 1]

\* The config merge not in use.
ConfigAtRest ==
    /\ argv = <<>>
    /\ cfg = <<>>
    /\ namespace = <<>>
    /\ cfg_keys = {}

\* The sampler, the classifier and the config merge not in use.
OthersAtRest ==
    /\ sample_size = 0
    /\ SamplerAtEntry
    /\ ConfigAtRest
    /\ cls_err = NoError
    /\ cls_result = NoResult

Init ==
    /\ args \in CoreArgs
    /\ fieldnames \in Headers
    /\ rows \in SeqUpTo(Rows, MaxRows)
    /\ success_file \in (IF args.checkpoint_success THEN PriorCheckpoints ELSE {<<>>})
    /\ failed_file = <<>>
    /\ pc = "start"
    /\ AtEntry
    /\ PacingFixed
    /\ OthersAtRest

\* ---------------------------------------------------------------- actions
\* run(), from its entry to the "for" over the rows: build the client, validate
\* the header, load the checkpoint, open the output files.
StartRun ==
    /\ pc = "start"
    /\ \E built \in BOOLEAN :
         /\ service' = build_service(args.dry_run, built)
         /\ IF ~args.dry_run /\ ~built
            THEN /\ pc' = "exit" /\ exit_code' = 1
                 /\ UNCHANGED <<processed_tokens, loaded_tokens, log_path, logs>>
            ELSE IF HeaderError(fieldnames, args.mode)
            THEN /\ pc' = "exit" /\ exit_code' = 2
                 /\ UNCHANGED <<processed_tokens, loaded_tokens, log_path, logs>>
            ELSE IF args.package_name = <<>>
                    /\ choose_field(fieldnames, package_candidates) = None
            THEN /\ pc' = "exit" /\ exit_code' = 2
                 /\ UNCHANGED <<processed_tokens, loaded_tokens, log_path, logs>>
            ELSE /\ pc' = "loop"
                 /\ processed_tokens' = load_checkpoint(args.checkpoint_success, success_file)
                 /\ loaded_tokens' = load_checkpoint(args.checkpoint_success, success_file)
                 /\ \E now \in ClockReadings :
                      /\ log_path' = RunLogPath(now)
                      /\ logs' = OpenForWrite(logs, RunLogPath(now))
                 /\ UNCHANGED exit_code
    /\ UNCHANGED <<input_vars, sample_vars, dispatch_vars, success_file, failed_file,
                   log_file, eligible_file,
                   ineligible_file, run_no, idx, token, package_name, totals, attempt,
                   result, remote_calls, inv_calls, inv_sleeps, delays, run_success, prev_success, ack_vars,
                   response>>

\* The row the "for" statement hands out next.
NextRowRaw == rows[idx + 1]
NextToken == Strip(NextRowRaw.token)
NextPackage ==
    pick_package(NextRowRaw, choose_field(fieldnames, package_candidates), args.package_name)

\* Variant: the loop breaks one processed row late.
CapReached_Late == args.max_rows # 0 /\ totals.processed > args.max_rows

\* The max-rows test at the head of the loop body.
CapReached == args.max_rows # 0 /\ totals.processed >= args.max_rows

\* Variant: a package that differs from the run-level one is let through.
SkipCondition_NoMismatch ==
    \/ NextToken = <<>>
    \/ NextToken \in processed_tokens
    \/ NextPackage = <<>>

\* Variant: a token of the failure checkpoint file is skipped as well.
SkipCondition_FailedToo ==
    \/ NextToken = <<>>
    \/ NextToken \in processed_tokens
    \/ NextToken \in load_checkpoint(args.checkpoint_failed, failed_file)
    \/ NextPackage = <<>>
    \/ args.package_name # <<>> /\ NextPackage # args.package_name

\* Variant: the success set is not consulted.
SkipCondition_NoCheckpoint ==
    \/ NextToken = <<>>
    \/ NextPackage = <<>>
    \/ args.package_name # <<>> /\ NextPackage # args.package_name

\* One of the four row-level skip conditions holds for the next row.
SkipCondition ==
    \/ NextToken = <<>>
    \/ NextToken \in processed_tokens
    \/ NextPackage = <<>>
    \/ args.package_name # <<>> /\ NextPackage # args.package_name

\* The rows are exhausted: close the files, print the summary, return 0.
LoopEnd ==
    /\ pc = "loop"
    /\ idx = Len(rows)
    /\ pc' = "done"
    /\ exit_code' = 0
    /\ UNCHANGED <<input_vars, log_vars, service, sample_vars, dispatch_vars, success_file, failed_file, run_no, run_vars,
                   run_success, prev_success, ack_vars>>

\* "break" on the max-rows cap, then the same epilogue.
LoopBreak ==
    /\ pc = "loop"
    /\ idx < Len(rows)
    /\ CapReached
    /\ pc' = "done"
    /\ exit_code' = 0
    /\ idx' = idx + 1
    /\ UNCHANGED <<input_vars, log_vars, service, sample_vars, dispatch_vars, success_file, failed_file, run_no, log_file, eligible_file,
                   ineligible_file, token, package_name, totals, processed_tokens, attempt,
                   result, remote_calls, inv_calls, inv_sleeps, delays, loaded_tokens,
                   run_success, prev_success, ack_vars, response>>

\* A skipped row: count it and "continue".
SkipRow ==
    /\ pc = "loop"
    /\ idx < Len(rows)
    /\ ~CapReached
    /\ SkipCondition
    /\ idx' = idx + 1
    /\ token' = NextToken
    /\ totals' = [totals EXCEPT !.skipped = @ + 1]
    /\ UNCHANGED <<input_vars, log_vars, service, sample_vars, dispatch_vars, success_file, failed_file, run_no, pc, exit_code, log_file,
                   eligible_file, ineligible_file, package_name, processed_tokens, attempt,
                   result, remote_calls, inv_calls, inv_sleeps, delays, loaded_tokens,
                   run_success, prev_success, ack_vars, response>>

\* A row to process: count it and dispatch on dry-run and mode; the executor
\* is entered at its first attempt, or falls through an empty loop.
BeginRow ==
    /\ pc = "loop"
    /\ idx < Len(rows)
    /\ ~CapReached
    /\ ~SkipCondition
    /\ idx' = idx + 1
    /\ token' = NextToken
    /\ package_name' = NextPackage
    /\ totals' = [totals EXCEPT !.processed = @ + 1]
    /\ inv_calls' = 0
    /\ inv_sleeps' = 0
    /\ delays' = <<>>
    /\ IF args.dry_run
       THEN /\ result' = [NoResult EXCEPT !.status = "dry_run", !.attempts = 0]
            /\ attempt' = 0
            /\ pc' = "record"
       ELSE IF LoopRuns(args.retries)
       THEN /\ result' = NoResult
            /\ attempt' = 1
            /\ pc' = "call"
       ELSE /\ result' = FallThrough(args.retries)
            /\ attempt' = 0
            /\ pc' = "record"
    /\ response' = NoResponse
    /\ executor' = Dispatch(args.mode, args.dry_run)
    /\ UNCHANGED <<input_vars, log_vars, service, sample_vars, verbs, success_file, failed_file, run_no, exit_code, log_file,
                   eligible_file, ineligible_file, processed_tokens, remote_calls,
                   loaded_tokens, run_success, prev_success, ack_vars>>


\* Variant: a rate-limit response (429) is not retried.
ShouldRetry_NotRateLimit(status, att, retries) == status \in {500, 503} /\ att <= retries

\* Variant: one retry too many.
ShouldRetry_OneMore(status, att, retries) == status \in RETRY_STATUS /\ att <= retries + 1

\* Variant: one retry too few.
ShouldRetry_OffByOne(status, att, retries) == status \in RETRY_STATUS /\ att < retries

\* Variant: every HttpError is retried while attempts remain.
ShouldRetry_AnyStatus(status, att, retries) == att <= retries

\* The executor's test for another attempt after an HttpError.
ShouldRetry(status, att, retries) == status \in RETRY_STATUS /\ att <= retries

\* Variant: a success reports one attempt, however many calls were made.
SuccessResult_FirstAttempt(att, mode, payload) ==
    [NoResult EXCEPT !.status = "success", !.attempts = 1,
                     !.http_status = SuccessStatus(mode), !.payload = payload]

\* The results the executor returns.
SuccessResult(att, mode, payload) ==
    [NoResult EXCEPT !.status = "success", !.attempts = att,
                     !.http_status = SuccessStatus(mode), !.payload = payload]

\* Variant: a retryable status decides the error type before the message does.
HttpFailure_StatusFirst(att, err) ==
    LET parsed == parse_http_error(err) IN
    [NoResult EXCEPT !.status = "failure", !.attempts = att,
                     !.http_status = parsed.status, !.message = parsed.message,
                     !.error_type = IF parsed.status \in RETRY_STATUS THEN "transient"
                                    ELSE classify_error(parsed.message)]

HttpFailure(att, err) ==
    LET parsed == parse_http_error(err) IN
    [NoResult EXCEPT !.status = "failure", !.attempts = att,
                     !.http_status = parsed.status, !.message = parsed.message,
                     !.error_type = classify_error(parsed.message)]

\* Variant: the exception is reported like an unclassified HTTP failure.
ExceptionFailure_AsOther(att, text) ==
    [NoResult EXCEPT !.status = "failure", !.attempts = att, !.http_status = NoStatus,
                     !.message = text, !.error_type = "other"]

ExceptionFailure(att, text) ==
    [NoResult EXCEPT !.status = "failure", !.attempts = att, !.http_status = NoStatus,
                     !.message = text, !.error_type = "exception"]

\* Every remote call is counted against the token it is made for.
CountCall ==
    /\ remote_calls' = [remote_calls EXCEPT ![token] = @ + 1]
    /\ inv_calls' = inv_calls + 1
    /\ verbs' = verbs \cup {Verb(executor)}

call_frame == <<input_vars, log_vars, service, sample_vars, executor, success_file, failed_file, run_no, exit_code, log_file,
                eligible_file, ineligible_file, idx, token, package_name, totals,
                processed_tokens, inv_sleeps, delays, loaded_tokens, run_success, prev_success, ack_vars>>

\* The mode's verb returns: the executor returns success.
CallSuccess ==
    /\ pc = "call"
    /\ CountCall
    /\ \E payload \in (IF args.mode = "validate" THEN Payloads ELSE {NoPayload}) :
         result' = SuccessResult(attempt, args.mode, payload)
    /\ response' = [NoResponse EXCEPT !.kind = "ok"]
    /\ pc' = "record"
    /\ UNCHANGED <<call_frame, attempt>>

\* The mode's verb raises HttpError: sleep and retry, or return the failure.
CallHttpError ==
    /\ pc = "call"
    /\ CountCall
    /\ \E err \in HttpErrors :
         /\ response' = [kind |-> "http", status |-> parse_http_error(err).status,
                         message |-> parse_http_error(err).message]
         /\ IF ShouldRetry(parse_http_error(err).status, attempt, args.retries)
            THEN /\ pc' = "sleep"
                 /\ UNCHANGED result
            ELSE /\ pc' = "record"
                 /\ result' = HttpFailure(attempt, err)
    /\ UNCHANGED <<call_frame, attempt>>

\* The mode's verb raises another exception: the executor returns the failure.
CallException ==
    /\ pc = "call"
    /\ CountCall
    /\ \E text \in ExceptionTexts :
         /\ result' = ExceptionFailure(attempt, text)
         /\ response' = [kind |-> "exception", status |-> NoStatus, message |-> text]
    /\ pc' = "record"
    /\ UNCHANGED <<call_frame, attempt>>

\* Compute the delay, time.sleep(delay) and "continue": the next attempt.
Sleep ==
    /\ pc = "sleep"
    /\ inv_sleeps' = inv_sleeps + 1
    /\ \E u \in uniform(0, jitter) :
         delays' = Append(delays, [attempt |-> attempt,
                                   base |-> BackoffDelay(backoff, attempt),
                                   delay |-> BackoffDelay(backoff, attempt) + u])
    /\ attempt' = attempt + 1
    /\ pc' = "call"
    /\ UNCHANGED <<input_vars, log_vars, service, sample_vars, dispatch_vars, success_file, failed_file, run_no, exit_code, log_file,
                   eligible_file, ineligible_file, idx, token, package_name, totals,
                   processed_tokens, result, remote_calls, inv_calls, loaded_tokens,
                   run_success, prev_success, ack_vars, response>>

\* Variant: the already-cancelled kind has its counter in validate mode too.
Counter_AlreadyInValidate(mode, res) ==
    IF res.status = "success" THEN "success"
    ELSE IF res.status = "dry_run" THEN "dry_run"
    ELSE IF res.error_type = "already_cancelled" THEN "already_cancelled"
    ELSE IF res.http_status \in RETRY_STATUS THEN "failed_transient"
    ELSE "failed_permanent"

\* Variant: the HTTP status is looked at before the already-cancelled kind.
Counter_StatusFirst(mode, res) ==
    IF res.status = "success" THEN "success"
    ELSE IF res.status = "dry_run" THEN "dry_run"
    ELSE IF res.http_status \in RETRY_STATUS THEN "failed_transient"
    ELSE IF mode # "validate" /\ res.error_type = "already_cancelled" THEN "already_cancelled"
    ELSE "failed_permanent"

\* The counter a result goes to.
Counter(mode, res) ==
    IF res.status = "success" THEN "success"
    ELSE IF res.status = "dry_run" THEN "dry_run"
    ELSE IF mode # "validate" /\ res.error_type = "already_cancelled" THEN "already_cancelled"
    ELSE IF res.http_status \in RETRY_STATUS THEN "failed_transient"
    ELSE "failed_permanent"

\* The audit record of the row in hand.
AuditRecord(mode, res) ==
    [purchaseToken |-> token, package |-> package_name, status |-> res.status,
     attempts |-> res.attempts, httpStatus |-> res.http_status,
     errorType |-> res.error_type, message |-> res.message, rowIndex |-> idx,
     subscriptionState |-> IF mode = "validate" THEN res.payload.subscriptionState ELSE None,
     eligibleForRevoke |->
         mode = "validate" /\ res.payload.subscriptionState \in ELIGIBLE_STATES]

\* The row of the eligible export.
EligibleRow(res) ==
    [token |-> token, package |-> package_name,
     subscription_state |-> res.payload.subscriptionState]

\* The row of the ineligible export.
ExportRow(res) ==
    [token |-> token, package |-> package_name,
     subscription_state |-> res.payload.subscriptionState, status |-> res.status,
     http_status |-> res.http_status, error_type |-> res.error_type,
     message |-> res.message]

\* Variant: the log is rewritten from its start for every record.
log_record_Overwrite(fh, record) == <<record>>

\* Variant: the record stays in the writer's buffer and does not reach the file.
log_record_NoFlush(fh, record) == fh

\* Append one record to the audit log and flush it.
log_record(fh, record) == Append(fh, record)

\* After the executor returned: count the outcome, write the export row
\* (validate) and the audit record.
Record ==
    /\ pc = "record"
    /\ totals' = [totals EXCEPT ![Counter(args.mode, result)] = @ + 1]
    /\ IF args.mode # "validate"
       THEN UNCHANGED <<eligible_file, ineligible_file>>
       ELSE IF result.payload.subscriptionState \in ELIGIBLE_STATES
       THEN /\ eligible_file' = Append(eligible_file, EligibleRow(result))
            /\ UNCHANGED ineligible_file
       ELSE /\ ineligible_file' = Append(ineligible_file, ExportRow(result))
            /\ UNCHANGED eligible_file
    /\ log_file' = log_record(log_file, AuditRecord(args.mode, result))
    /\ run_success' = IF result.status = "success" THEN run_success \cup {token}
                      ELSE run_success
    /\ pc' = "checkpoint"
    /\ UNCHANGED <<input_vars, log_vars, service, sample_vars, dispatch_vars, success_file, failed_file, run_no, exit_code, idx, token,
                   package_name, processed_tokens, attempt, result, remote_calls,
                   inv_calls, inv_sleeps, delays, loaded_tokens, prev_success, ack_vars, response>>

\* The in-memory success set after a row that ended in success.
RememberSuccess(set, t, has_file) == IF has_file THEN set \cup {t} ELSE set

\* Variant: the checkpoint step also runs in a dry run.
WritesCheckpoint_Always(dry_run) == TRUE

\* The test that guards the checkpoint step.
WritesCheckpoint(dry_run) == ~dry_run

\* The checkpoint step that ends a processed row.
Checkpoint ==
    /\ pc = "checkpoint"
    /\ IF ~WritesCheckpoint(args.dry_run)
       THEN UNCHANGED <<success_file, failed_file, processed_tokens, checkpointed>>
       ELSE IF result.status = "success"
       THEN /\ success_file' = IF args.checkpoint_success
                               THEN append_checkpoint(success_file, token)
                               ELSE success_file
            /\ processed_tokens' =
                   RememberSuccess(processed_tokens, token, args.checkpoint_success)
            /\ checkpointed' =
                   RememberSuccess(checkpointed, token, args.checkpoint_success)
            /\ UNCHANGED failed_file
       ELSE /\ failed_file' = IF args.checkpoint_failed
                              THEN append_checkpoint(failed_file, token)
                              ELSE failed_file
            /\ UNCHANGED <<success_file, processed_tokens, checkpointed>>
    /\ pc' = "loop"
    /\ UNCHANGED <<input_vars, log_vars, service, sample_vars, dispatch_vars, run_no, exit_code, log_file, eligible_file, ineligible_file,
                   idx, token, package_name, totals, attempt, result, remote_calls,
                   inv_calls, inv_sleeps, delays, loaded_tokens, run_success, prev_success, prev_checkpointed,
                   response>>

\* The program is invoked a second time with the same command line, input
\* and checkpoint files, after the first invocation returned or was terminated.
Rerun ==
    /\ pc \in {"done", "exit", "killed"}
    /\ run_no = 1
    /\ run_no' = run_no + 1
    /\ pc' = "start"
    /\ exit_code' = 0
    /\ log_file' = <<>>
    /\ eligible_file' = <<>>
    /\ ineligible_file' = <<>>
    /\ idx' = 0
    /\ token' = <<>>
    /\ package_name' = <<>>
    /\ totals' = ZeroTotals
    /\ processed_tokens' = {}
    /\ attempt' = 0
    /\ result' = NoResult
    /\ response' = NoResponse
    /\ remote_calls' = [t \in Tokens |-> 0]
    /\ inv_calls' = 0
    /\ inv_sleeps' = 0
    /\ delays' = <<>>
    /\ loaded_tokens' = {}
    /\ prev_success' = run_success
    /\ prev_checkpointed' = checkpointed
    /\ checkpointed' = {}
    /\ run_success' = {}
    /\ logs' = IF log_path # <<>> THEN CloseFile(logs, log_path, log_file) ELSE logs
    /\ log_path' = <<>>
    /\ service' = None
    /\ executor' = None
    /\ verbs' = {}
    /\ UNCHANGED <<input_vars, sample_vars, success_file, failed_file>>

\* The process is terminated (a signal, a crash) wherever the invocation is:
\* its memory is gone, the files keep what was written and flushed to them.
Terminate ==
    /\ pc \in {"start", "loop", "call", "sleep", "record", "checkpoint"}
    /\ pc' = "killed"
    /\ UNCHANGED <<input_vars, log_vars, service, sample_vars, dispatch_vars, success_file,
                   failed_file, run_no, exit_code, run_vars, run_success, prev_success, ack_vars>>

\* One invocation of the program.
Next ==
    \/ StartRun
    \/ LoopEnd
    \/ LoopBreak
    \/ SkipRow
    \/ BeginRow
    \/ CallSuccess
    \/ CallHttpError
    \/ CallException
    \/ Sleep
    \/ Record
    \/ Checkpoint

Spec == Init /\ [][Next]_vars

\* Two invocations in a row, without a failure checkpoint and starting from
\* an empty success checkpoint.
InitResume ==
    /\ Init
    /\ ~args.checkpoint_failed
    /\ success_file = <<>>

NextResume ==
    \/ Next
    \/ Rerun

SpecResume == InitResume /\ [][NextResume]_vars

\* Two invocations in a row of a mutating mode under every setting of the log
\* options, without checkpoint files and with the largest retry count.
InitLogs ==
    /\ args \in {a \in ArgsDomain : /\ a.mode # "validate"
                                    /\ a.retries = MaxRetries
                                    /\ a.package_name # <<>>
                                    /\ ~a.checkpoint_success
                                    /\ ~a.checkpoint_failed}
    /\ fieldnames = AllColumns
    /\ rows \in SeqUpTo(Rows, MaxRows)
    /\ success_file = <<>>
    /\ failed_file = <<>>
    /\ pc = "start"
    /\ AtEntry
    /\ PacingFixed
    /\ OthersAtRest

SpecLogs == InitLogs /\ [][NextResume]_vars

\* One invocation under every header and with or without a run-level package
\* name, both checkpoint files configured.
InitStartup ==
    /\ args \in {a \in ArgsDomain : /\ a.retries = MaxRetries
                                    /\ a.checkpoint_success
                                    /\ a.checkpoint_failed
                                    /\ a.log = <<>>
                                    /\ ~a.timestamp_logs}
    /\ fieldnames \in SUBSET AllColumns
    /\ rows \in SeqUpTo(Rows, MaxRows)
    /\ success_file \in PriorCheckpoints
    /\ failed_file = <<>>
    /\ pc = "start"
    /\ AtEntry
    /\ PacingFixed
    /\ OthersAtRest

SpecStartup == InitStartup /\ [][Next]_vars

\* One invocation of cancel mode over rows whose package cells vary, with and
\* without the package column and the run-level package name, with the
\* largest retry count and without a failure checkpoint.
InitPackages ==
    /\ args \in {a \in ArgsDomain : /\ a.mode = "cancel"
                                    /\ a.retries = MaxRetries
                                    /\ ~a.checkpoint_failed
                                    /\ a.log = <<>>
                                    /\ ~a.timestamp_logs}
    /\ fieldnames \in {AllColumns, AllColumns \ {"package"}}
    /\ rows \in SeqUpTo(PackageRows, MaxRows)
    /\ success_file \in (IF args.checkpoint_success THEN PriorCheckpoints ELSE {<<>>})
    /\ failed_file = <<>>
    /\ pc = "start"
    /\ AtEntry
    /\ PacingFixed
    /\ OthersAtRest

SpecPackages == InitPackages /\ [][Next]_vars

\* One live invocation of cancel mode over an input of ScenarioRows rows, with
\* the largest retry count and without checkpoint files.
InitScenario ==
    /\ args \in {a \in CoreArgs : /\ a.mode = "cancel"
                                  /\ ~a.dry_run
                                  /\ a.retries = MaxRetries
                                  /\ ~a.checkpoint_success
                                  /\ ~a.checkpoint_failed}
    /\ fieldnames = AllColumns
    /\ rows \in [1..ScenarioRows -> Rows]
    /\ success_file = <<>>
    /\ failed_file = <<>>
    /\ pc = "start"
    /\ AtEntry
    /\ PacingFixed
    /\ OthersAtRest

SpecScenario == InitScenario /\ [][Next]_vars

\* One invocation that may be terminated at any point, with the largest retry
\* count and without checkpoint files.
InitCrash ==
    /\ args \in {a \in CoreArgs : /\ a.retries = MaxRetries
                                  /\ ~a.checkpoint_success
                                  /\ ~a.checkpoint_failed}
    /\ fieldnames = AllColumns
    /\ rows \in SeqUpTo(Rows, MaxRows)
    /\ success_file = <<>>
    /\ failed_file = <<>>
    /\ pc = "start"
    /\ AtEntry
    /\ PacingFixed
    /\ OthersAtRest

NextCrash ==
    \/ Next
    \/ Terminate

SpecCrash == InitCrash /\ [][NextCrash]_vars

\* --backoff and --jitter values, in quarters of a second.
BackoffDomain == {0, 1, 3}
JitterDomain == {0, 1}

\* One retry more than the largest count of the other runs.
BackoffRetries == MaxRetries + 1

\* One live invocation of cancel mode with BackoffRetries retries, under
\* every pacing, without checkpoint files, over rows with one token or none.
InitBackoff ==
    /\ args \in {[a EXCEPT !.retries = BackoffRetries] :
                    a \in {c \in CoreArgs : /\ c.mode = "cancel"
                                           /\ ~c.dry_run
                                           /\ c.retries = MaxRetries
                                           /\ ~c.checkpoint_success
                                           /\ ~c.checkpoint_failed}}
    /\ fieldnames = AllColumns
    /\ rows \in SeqUpTo({r \in Rows : Strip(r.token) \in {<<>>, <<"a">>}}, MaxRows)
    /\ success_file = <<>>
    /\ failed_file = <<>>
    /\ pc = "start"
    /\ AtEntry
    /\ backoff \in BackoffDomain
    /\ jitter \in JitterDomain
    /\ OthersAtRest

SpecBackoff == InitBackoff /\ [][Next]_vars

\* A live invocation of a mutating mode with a success checkpoint, empty at
\* first, that may be terminated at any point, and a second invocation with
\* the same command line, input and checkpoint file.
InitCrashResume ==
    /\ args \in {a \in CoreArgs : /\ a.mode # "validate"
                                  /\ ~a.dry_run
                                  /\ a.retries = MaxRetries
                                  /\ a.checkpoint_success
                                  /\ ~a.checkpoint_failed}
    /\ fieldnames = AllColumns
    /\ rows \in SeqUpTo(Rows, MaxRows)
    /\ success_file = <<>>
    /\ failed_file = <<>>
    /\ pc = "start"
    /\ AtEntry
    /\ PacingFixed
    /\ OthersAtRest

NextCrashResume ==
    \/ Next
    \/ Terminate
    \/ Rerun

SpecCrashResume == InitCrashResume /\ [][NextCrashResume]_vars

\* One invocation of a mutating mode with a failure checkpoint configured,
\* the file empty or left by an earlier invocation, with the largest retry
\* count.
InitFollowUp ==
    /\ args \in {a \in CoreArgs : /\ a.mode # "validate"
                                  /\ a.retries = MaxRetries
                                  /\ a.checkpoint_failed}
    /\ fieldnames = AllColumns
    /\ rows \in SeqUpTo(Rows, MaxRows)
    /\ success_file \in (IF args.checkpoint_success THEN PriorCheckpoints ELSE {<<>>})
    /\ failed_file \in PriorCheckpoints
    /\ pc = "start"
    /\ AtEntry
    /\ PacingFixed
    /\ OthersAtRest

SpecFollowUp == InitFollowUp /\ [][Next]_vars

\* One invocation of cancel mode that keeps running: the interpreter executes
\* the next statement, every remote call returns or raises, every sleep ends.
\* Without a failure checkpoint.
InitTermination ==
    /\ args \in {a \in CoreArgs : a.mode = "cancel" /\ ~a.checkpoint_failed}
    /\ fieldnames = AllColumns
    /\ rows \in SeqUpTo(Rows, MaxRows)
    /\ success_file \in (IF args.checkpoint_success THEN PriorCheckpoints ELSE {<<>>})
    /\ failed_file = <<>>
    /\ pc = "start"
    /\ AtEntry
    /\ PacingFixed
    /\ OthersAtRest

SpecTermination == InitTermination /\ [][Next]_vars /\ WF_vars(Next)

\* After a validate invocation returned, the program is invoked again on the
\* same input and checkpoint files in a mutating mode, the rest of the
\* command line the same.
RerunMutating ==
    /\ pc \in {"done", "exit"}
    /\ run_no = 1
    /\ args.mode = "validate"
    /\ \E mode \in Modes \ {"validate"} : args' = [args EXCEPT !.mode = mode]
    /\ run_no' = run_no + 1
    /\ pc' = "start"
    /\ exit_code' = 0
    /\ log_file' = <<>>
    /\ eligible_file' = <<>>
    /\ ineligible_file' = <<>>
    /\ idx' = 0
    /\ token' = <<>>
    /\ package_name' = <<>>
    /\ totals' = ZeroTotals
    /\ processed_tokens' = {}
    /\ attempt' = 0
    /\ result' = NoResult
    /\ response' = NoResponse
    /\ remote_calls' = [t \in Tokens |-> 0]
    /\ inv_calls' = 0
    /\ inv_sleeps' = 0
    /\ delays' = <<>>
    /\ loaded_tokens' = {}
    /\ prev_success' = run_success
    /\ prev_checkpointed' = checkpointed
    /\ checkpointed' = {}
    /\ run_success' = {}
    /\ logs' = IF log_path # <<>> THEN CloseFile(logs, log_path, log_file) ELSE logs
    /\ log_path' = <<>>
    /\ service' = None
    /\ executor' = None
    /\ verbs' = {}
    /\ UNCHANGED <<fieldnames, rows, cls_err, cls_result, config_vars, pacing_vars,
                   sample_vars, success_file, failed_file>>

\* A live validate invocation with a success checkpoint, empty at first, and
\* then a mutating one with the same checkpoint, with the largest retry count.
InitHandOver ==
    /\ args \in {a \in CoreArgs : /\ a.mode = "validate"
                                  /\ ~a.dry_run
                                  /\ a.retries = MaxRetries
                                  /\ a.checkpoint_success
                                  /\ ~a.checkpoint_failed}
    /\ fieldnames = AllColumns
    /\ rows \in SeqUpTo(Rows, MaxRows)
    /\ success_file = <<>>
    /\ failed_file = <<>>
    /\ pc = "start"
    /\ AtEntry
    /\ PacingFixed
    /\ OthersAtRest

NextHandOver ==
    \/ Next
    \/ RerunMutating

SpecHandOver == InitHandOver /\ [][NextHandOver]_vars


\* --------------------------------------------------- classifier in isolation
\* Pieces the error messages given to the classifier are made of.
Fragments ==
    { <<"A", "l", "r", "e", "a", "d", "y", " ", "c", "a", "n", "c", "e", "l", "l", "e", "d">>,
      <<"A", "L", "R", "E", "A", "D", "Y", " ">>,
      <<"c", "a", "n", "c", "e", "l">>,
      <<"n", "o", "t">>,
      <<" ", "f", "o", "u", "n", "d">>,
      <<"N", "o", "t", " ", "F", "o", "u", "n", "d">>,
      <<"P", "e", "r", "m", "i", "s", "s", "i", "o", "n">>,
      <<"F", "O", "R", "B", "I", "D", "D", "E", "N">>,
      <<"x">> }

RECURSIVE Concat(_)
Concat(ss) == IF ss = <<>> THEN <<>> ELSE Head(ss) \o Concat(Tail(ss))

\* The messages of at most MaxFrags fragments.
Messages == {Concat(ss) : ss \in SeqUpTo(Fragments, MaxFrags)}

Statuses == {400, 403, 404, 429, 500, 503}

\* The batch driver at rest while the classifier is exercised.
InitClassify ==
    /\ args = [mode |-> "cancel", dry_run |-> FALSE, retries |-> 0, max_rows |-> 0,
               package_name |-> <<"p">>, checkpoint_success |-> FALSE,
               checkpoint_failed |-> FALSE, log |-> <<>>, timestamp_logs |-> FALSE]
    /\ fieldnames = AllColumns
    /\ rows = <<>>
    /\ success_file = <<>>
    /\ failed_file = <<>>
    /\ log_file = <<>>
    /\ eligible_file = <<>>
    /\ ineligible_file = <<>>
    /\ run_no = 1
    /\ pc = "classify"
    /\ exit_code = 0
    /\ idx = 0
    /\ token = <<>>
    /\ package_name = <<>>
    /\ totals = ZeroTotals
    /\ processed_tokens = {}
    /\ attempt = 1
    /\ result = NoResult
    /\ remote_calls = [t \in Tokens |-> 0]
    /\ inv_calls = 0
    /\ inv_sleeps = 0
    /\ delays = <<>>
    /\ loaded_tokens = {}
    /\ run_success = {}
    /\ prev_success = {}
    /\ checkpointed = {}
    /\ prev_checkpointed = {}
    /\ response = NoResponse
    /\ log_path = <<>>
    /\ logs = <<>>
    /\ service = None
    /\ executor = None
    /\ verbs = {}
    /\ sample_size = 0
    /\ sample_i = 0
    /\ reservoir = <<>>
    /\ outcomes = [r \in {<<>>} |-> 1]
    /\ cls_err \in [status : Statuses, body : Messages, text : {<<"E">>}]
    /\ cls_result = NoResult
    /\ ConfigAtRest
    /\ PacingFixed

\* The executor's return for an HttpError on its last attempt.
Classify ==
    /\ pc = "classify"
    /\ ~ShouldRetry(parse_http_error(cls_err).status, attempt, args.retries)
    /\ cls_result' = HttpFailure(attempt, cls_err)
    /\ pc' = "classified"
    /\ UNCHANGED <<args, fieldnames, rows, cls_err, pacing_vars, success_file, failed_file, run_no,
                   exit_code, run_vars, run_success, prev_success, ack_vars, log_vars,
                   service, sample_vars, dispatch_vars, config_vars>>

NextClassify == Classify

SpecClassify == InitClassify /\ [][NextClassify]_vars


\* ------------------------------------------------------ sampler in isolation
\* Variant: the draw excludes its upper end.
randint_Exclusive(a, b) == a..(b - 1)

\* random.randint(a, b): the values a draw can return, all equally likely.
randint(a, b) == a..b

\* Variant: a drawn row is added to the reservoir instead of replacing a slot.
ReservoirStep_Append(res, i, j, k, row) ==
    IF i <= k THEN Append(res, row)
    ELSE IF j <= k THEN Append(res, row)
    ELSE res

\* The body of the sampler's loop for row i, the draw being j.
ReservoirStep(res, i, j, k, row) ==
    IF i <= k THEN Append(res, row)
    ELSE IF j <= k THEN [res EXCEPT ![j] = row]
    ELSE res

\* The draws of the loop body for row i: none is made while the reservoir fills.
Draws(i, k) == IF i <= k THEN {1} ELSE randint(1, i)

\* A row as the reader yields it, told apart from equal rows by its position.
RowAt(i) == [pos |-> i, row |-> rows[i]]

RECURSIVE SumCounts(_, _)
SumCounts(f, S) ==
    IF S = {} THEN 0
    ELSE LET x == CHOOSE y \in S : TRUE IN f[x] + SumCounts(f, S \ {x})

\* The draw sequences after row i, counted by the reservoir they lead to.
StepOutcomes(dist, i, k) ==
    LET next == {ReservoirStep(r, i, j, k, RowAt(i)) : r \in DOMAIN dist, j \in Draws(i, k)}
    IN [r2 \in next |->
           SumCounts([r \in DOMAIN dist |->
                         dist[r] * Cardinality({j \in Draws(i, k) :
                                      ReservoirStep(r, i, j, k, RowAt(i)) = r2})],
                     DOMAIN dist)]

SampleSizes == {-1} \cup (0..MaxSample)

\* sample_rows(path, sample_size) is called on a file of at most MaxSampleRows
\* rows; the batch driver is at rest.
InitSample ==
    /\ args = [mode |-> "cancel", dry_run |-> FALSE, retries |-> 0, max_rows |-> 0,
               package_name |-> <<"p">>, checkpoint_success |-> FALSE,
               checkpoint_failed |-> FALSE, log |-> <<>>, timestamp_logs |-> FALSE]
    /\ fieldnames = AllColumns
    /\ rows \in SeqUpTo(Rows, MaxSampleRows)
    /\ success_file = <<>>
    /\ failed_file = <<>>
    /\ pc = "sample"
    /\ AtEntry
    /\ PacingFixed
    /\ sample_size \in SampleSizes
    /\ SamplerAtEntry
    /\ cls_err = NoError
    /\ cls_result = NoResult
    /\ ConfigAtRest

\* sample_size <= 0: return the empty list.
SampleNone ==
    /\ pc = "sample"
    /\ sample_size <= 0
    /\ pc' = "sampled"
    /\ UNCHANGED <<input_vars, log_vars, service, sample_vars, dispatch_vars, success_file, failed_file, run_no,
                   exit_code, run_vars, run_success, prev_success, ack_vars>>

\* One iteration of the loop over the reader.
SampleRow ==
    /\ pc = "sample"
    /\ sample_size > 0
    /\ sample_i < Len(rows)
    /\ sample_i' = sample_i + 1
    /\ \E j \in Draws(sample_i + 1, sample_size) :
         reservoir' = ReservoirStep(reservoir, sample_i + 1, j, sample_size,
                                    RowAt(sample_i + 1))
    /\ outcomes' = StepOutcomes(outcomes, sample_i + 1, sample_size)
    /\ UNCHANGED <<input_vars, log_vars, service, dispatch_vars, sample_size, success_file, failed_file, run_no,
                   pc, exit_code, run_vars, run_success, prev_success, ack_vars>>

\* The reader is exhausted: return the reservoir.
SampleReturn ==
    /\ pc = "sample"
    /\ sample_size > 0
    /\ sample_i = Len(rows)
    /\ pc' = "sampled"
    /\ UNCHANGED <<input_vars, log_vars, service, sample_vars, dispatch_vars, success_file, failed_file, run_no,
                   exit_code, run_vars, run_success, prev_success, ack_vars>>

NextSample ==
    \/ SampleNone
    \/ SampleRow
    \/ SampleReturn

SpecSample == InitSample /\ [][NextSample]_vars


\* -------------------------------------------------- config merge in isolation
\* Options of the command line, with the values given to them here; every
\* value is written as its text.
Options == {"retries", "mode", "dry_run"}

\* DEFAULTS[key]; DEFAULTS.get(key, None) for a key it does not have.
DEFAULTS(key) ==
    CASE key = "retries" -> "3"
      [] key = "mode" -> "cancel"
      [] key = "dry_run" -> "False"
      [] OTHER -> None

\* The values an option can be given on the command line: --dry-run is a
\* store_true flag and can only be given as True.
Typed(key) ==
    CASE key = "retries" -> {"3", "5"}
      [] key = "mode" -> {"cancel", "validate"}
      [] key = "dry_run" -> {"True"}

\* The command lines: every option typed with one of its values, or not typed.
CommandLines ==
    UNION {[given -> UNION {Typed(k) : k \in given}] : given \in SUBSET Options}

\* A command line gives each option it types one of that option's values.
WellTyped(line) == \A k \in DOMAIN line : line[k] \in Typed(k)

\* Values of the keys of a config file: null, or a value other than the
\* default; "note" is a key that is no option.
ConfigKeys == Options \cup {"note"}
ConfigValues(key) ==
    CASE key = "retries" -> {None, "5", "7"}
      [] key = "mode" -> {None, "validate", "revoke-prorated"}
      [] key = "dry_run" -> {None, "True"}
      [] key = "note" -> {"x"}

\* The JSON objects of the config file; the empty one also stands for a run
\* without --config.
ConfigObjects ==
    UNION {[keys -> UNION {ConfigValues(k) : k \in keys}] : keys \in SUBSET ConfigKeys}

WellFormed(object) == \A k \in DOMAIN object : object[k] \in ConfigValues(k)

\* parse_args: the typed value, else the default of add_argument, which is
\* the value DEFAULTS holds for the option.
parse_args(line) ==
    [k \in Options |-> IF k \in DOMAIN line THEN line[k] ELSE DEFAULTS(k)]

\* apply_config leaves the option alone when its current value differs from
\* the default.
KeepsCurrent(ns, key) == ns[key] # DEFAULTS(key)

InitConfig ==
    /\ args = [mode |-> "cancel", dry_run |-> FALSE, retries |-> 0, max_rows |-> 0,
               package_name |-> <<"p">>, checkpoint_success |-> FALSE,
               checkpoint_failed |-> FALSE, log |-> <<>>, timestamp_logs |-> FALSE]
    /\ fieldnames = AllColumns
    /\ rows = <<>>
    /\ success_file = <<>>
    /\ failed_file = <<>>
    /\ pc = "main"
    /\ AtEntry
    /\ PacingFixed
    /\ sample_size = 0
    /\ SamplerAtEntry
    /\ cls_err = NoError
    /\ cls_result = NoResult
    /\ argv \in {line \in CommandLines : WellTyped(line)}
    /\ cfg \in {object \in ConfigObjects : WellFormed(object)}
    /\ namespace = <<>>
    /\ cfg_keys = {}

config_frame == <<args, fieldnames, rows, cls_err, cls_result, pacing_vars, success_file, failed_file,
                  run_no, exit_code, run_vars, run_success, prev_success, ack_vars, log_vars,
                  service, sample_vars, dispatch_vars, argv, cfg>>

\* main: parse the command line, load the config file, enter apply_config.
ParseArgs ==
    /\ pc = "main"
    /\ namespace' = parse_args(argv)
    /\ cfg_keys' = DOMAIN cfg
    /\ pc' = "apply_config"
    /\ UNCHANGED config_frame

\* One iteration of the loop over cfg.items().
ApplyConfigKey ==
    /\ pc = "apply_config"
    /\ \E key \in cfg_keys :
         /\ cfg_keys' = cfg_keys \ {key}
         /\ namespace' =
                IF cfg[key] = None THEN namespace
                ELSE IF key \notin DOMAIN namespace THEN namespace
                ELSE IF KeepsCurrent(namespace, key) THEN namespace
                ELSE [namespace EXCEPT ![key] = cfg[key]]
    /\ UNCHANGED <<pc, config_frame>>

\* No config, or the loop is over: apply_config returns the Namespace.
ApplyConfigReturn ==
    /\ pc = "apply_config"
    /\ cfg_keys = {}
    /\ pc' = "merged"
    /\ UNCHANGED <<config_frame, namespace, cfg_keys>>

NextConfig ==
    \/ ParseArgs
    \/ ApplyConfigKey
    \/ ApplyConfigReturn

SpecConfig == InitConfig /\ [][NextConfig]_vars

\* ================================================================== claims

\* The last record of the audit log.
LastRecord == log_file[Len(log_file)]

\* C1. Skip rule: when the loop reaches a row (the max-rows cap not yet hit)
\* whose stripped token is in the in-memory success set, the step that handles
\* the row makes no remote call, adds one to skipped, changes no other counter
\* and leaves the loop at its head for the next row.
C1_SkipRule ==
    [][(pc = "loop" /\ idx < Len(rows) /\ ~CapReached /\ NextToken \in processed_tokens)
         => /\ remote_calls' = remote_calls
            /\ inv_calls' = inv_calls
            /\ totals' = [totals EXCEPT !.skipped = @ + 1]
            /\ processed_tokens' = processed_tokens
            /\ idx' = idx + 1
            /\ pc' = "loop"]_vars

\* Row 1 was processed and added its token to the success set during the run;
\* row 2 carried the same token and was skipped.
C1_Witness ==
    /\ pc = "loop" /\ idx = 2
    /\ loaded_tokens = {}
    /\ Strip(rows[1].token) # <<>>
    /\ token \in processed_tokens
    /\ totals.processed = 1 /\ totals.skipped = 1
    /\ remote_calls[token] = 1

\* C2. Checkpoint idempotence: in the second of two non-dry invocations over
\* the same input and success checkpoint file, no remote call is made for a
\* token whose row ended in success in the first.
C2_Idempotent ==
    (run_no = 2 /\ args.checkpoint_success /\ ~args.dry_run)
        => \A t \in prev_success : remote_calls[t] = 0

\* C3. Self-deduplication: in one invocation, no remote call is prepared for a
\* token whose earlier row ended in success, with or without a success
\* checkpoint file.
C3_SelfDedup ==
    pc \in {"call", "sleep"} => token \notin run_success

\* C4. A dry run makes no remote call, leaves both checkpoint files as they
\* are, and ends with the in-memory success set equal to the loaded one.
C4_DryRunNoEffect ==
    [][args.dry_run
         => /\ remote_calls' = remote_calls
            /\ success_file' = success_file
            /\ failed_file' = failed_file
            /\ (pc' = "done" => processed_tokens' = loaded_tokens')]_vars

\* A dry run with both checkpoints configured that processed two rows.
C4_Witness ==
    /\ args.dry_run /\ args.checkpoint_success /\ args.checkpoint_failed
    /\ pc = "done"
    /\ totals.dry_run = 2

\* C5. Retry bound: when the executor returns after a call that failed with a
\* retryable status (so every call of the invocation did), it has made
\* exactly retries + 1 calls and returns a failure with attempts = retries + 1.
C5_RetryBound ==
    (pc = "record" /\ response.kind = "http" /\ response.status \in RETRY_STATUS)
        => /\ args.retries >= 0
           /\ result.status = "failure"
           /\ result.attempts = args.retries + 1
           /\ inv_calls = args.retries + 1

\* The revoke executor gave up after retries + 1 = 2 retryable failures.
C5_Witness ==
    /\ pc = "record" /\ args.mode = "revoke-prorated" /\ args.retries = 1
    /\ response.kind = "http" /\ response.status \in RETRY_STATUS
    /\ result.attempts = 2 /\ inv_calls = 2

\* C6. Attempt accounting: the executor's result carries as attempts the
\* number of remote calls it made, a number from 1 to retries + 1, for every
\* retries value the command line accepts.
C6_AttemptAccounting ==
    (pc = "record" /\ ~args.dry_run)
        => /\ result.attempts = inv_calls
           /\ 1 <= result.attempts
           /\ result.attempts <= args.retries + 1

\* C7. No retry of permanent failures: a call that fails with a status outside
\* the retry set, or with any HTTP status on attempt retries + 1, makes the
\* executor return a failure for that attempt without a sleep; and once the
\* executor has returned, the row sees no further call or sleep.
C7_NoRetryOfPermanent ==
    [][/\ (pc = "call" /\ response'.kind = "http"
              /\ (response'.status \notin RETRY_STATUS \/ attempt = args.retries + 1))
          => /\ pc' = "record"
             /\ result'.status = "failure"
             /\ result'.attempts = attempt
             /\ result'.http_status = response'.status
             /\ inv_sleeps' = inv_sleeps
       /\ (pc \in {"record", "checkpoint"})
          => /\ remote_calls' = remote_calls
             /\ inv_sleeps' = inv_sleeps]_vars

\* A permanent failure on the second attempt, after one sleep.
C7_Witness ==
    /\ pc = "record"
    /\ response.kind = "http" /\ response.status \notin RETRY_STATUS
    /\ result.attempts = 2 /\ inv_sleeps = 1 /\ inv_calls = 2

\* C8. Local faults: a call that raises a non-HTTP exception on attempt a ends
\* the executor with a failure of error type "exception", no HTTP status and
\* attempts = a, without a retry; the row's audit record is written, and the
\* run ends only at the end of the input or at the max-rows cap.
C8_LocalFault ==
    /\ (pc = "sleep" => response.kind # "exception")
    /\ (pc \in {"record", "checkpoint"} /\ response.kind = "exception")
          => /\ result.status = "failure"
             /\ result.error_type = "exception"
             /\ result.http_status = NoStatus
             /\ result.attempts = attempt
             /\ inv_calls = attempt
    /\ (pc = "checkpoint" /\ response.kind = "exception")
          => /\ Len(log_file) = totals.processed
             /\ LastRecord.purchaseToken = token
             /\ LastRecord.status = "failure"
             /\ LastRecord.errorType = "exception"
             /\ LastRecord.attempts = attempt
    /\ pc = "exit" => idx = 0
    /\ pc = "done"
          => \/ totals.processed + totals.skipped = Len(rows)
             \/ args.max_rows # 0 /\ totals.processed >= args.max_rows

\* Row 1 raised an exception on its second attempt and row 2 was processed to
\* success afterwards.
C8_Witness ==
    /\ pc = "done"
    /\ Len(log_file) = 2
    /\ log_file[1].errorType = "exception" /\ log_file[1].attempts = 2
    /\ log_file[2].status = "success"

\* The message rules of the classifier, on a lower-cased message.
RuleAlready(l) == Contains(l, sAlready) /\ Contains(l, sCancel)
RuleNotFound(l) == Contains(l, sNotFound)
RulePermission(l) == Contains(l, sPermission) \/ Contains(l, sForbidden)

\* C9. Classifier message rules: whatever the status, the error type is
\* already_cancelled when the lower-cased message holds "already" and
\* "cancel", else not_found when it holds "not found", else permission when it
\* holds "permission" or "forbidden".
C9_MessageRules ==
    pc = "classified"
        => LET l == Lower(parse_http_error(cls_err).message) IN
           /\ RuleAlready(l) => cls_result.error_type = "already_cancelled"
           /\ (~RuleAlready(l) /\ RuleNotFound(l)) => cls_result.error_type = "not_found"
           /\ (~RuleAlready(l) /\ ~RuleNotFound(l) /\ RulePermission(l))
                 => cls_result.error_type = "permission"

\* A message in capitals with a retryable status is classified by its text.
C9_Witness ==
    /\ pc = "classified"
    /\ cls_err.status = 503
    /\ cls_err.body # Lower(cls_err.body)
    /\ RuleAlready(Lower(cls_err.body))
    /\ ~RuleAlready(cls_err.body)
    /\ cls_result.error_type = "already_cancelled"

\* The spec's ErrorKind for transient statuses; the code has no value for it.
TransientServer == "transient"

\* The row in hand failed with a retryable status and a message none of the
\* message rules matches, and its audit record is written.
C10_Case ==
    /\ pc = "checkpoint"
    /\ result.status = "failure"
    /\ result.http_status \in RETRY_STATUS
    /\ ~RuleAlready(Lower(result.message))
    /\ ~RuleNotFound(Lower(result.message))
    /\ ~RulePermission(Lower(result.message))

C11_OneRecordPerRow ==
    /\ [](pc = "done"
            => /\ Len(log_file) = totals.processed
               /\ \A k \in 1..Len(log_file) :
                     /\ log_file[k].rowIndex \in 1..Len(rows)
                     /\ log_file[k].purchaseToken = Strip(rows[log_file[k].rowIndex].token)
                     /\ args.dry_run
                           => log_file[k].status = "dry_run" /\ log_file[k].attempts = 0
                     /\ k > 1 => log_file[k - 1].rowIndex < log_file[k].rowIndex)
    /\ [][\/ log_file' = log_file
          \/ /\ pc = "record"
             /\ totals.processed = Len(log_file) + 1
             /\ Len(log_file') = Len(log_file) + 1
             /\ SubSeq(log_file', 1, Len(log_file)) = log_file
             /\ log_file'[Len(log_file')].purchaseToken = token
             /\ log_file'[Len(log_file')].status = result.status
             /\ log_file'[Len(log_file')].attempts = result.attempts
             /\ log_file'[Len(log_file')].rowIndex = idx]_vars

\* Two rows processed in a validate run: a failure after a retry, then a
\* success, both in the log with their attempt counts.
C11_Witness ==
    /\ pc = "done" /\ args.mode = "validate" /\ ~args.dry_run
    /\ totals.processed = 2 /\ Len(log_file) = 2
    /\ log_file[1].status = "failure" /\ log_file[1].attempts = 2
    /\ log_file[2].status = "success" /\ log_file[2].attempts = 1

\* C12. The audit log is partitioned per run: a log file that an earlier
\* invocation left on disk is still there, with the same records, after every
\* step of a later invocation, under every setting of the log options.
C12_LogsKept ==
    [][\A p \in DOMAIN logs : p \in DOMAIN logs' /\ logs'[p] = logs[p]]_vars

\* The rows considered, as the claim counts them: the first max_rows rows of
\* the input when max-rows is set, all rows otherwise.
RowsConsidered ==
    IF args.max_rows # 0 /\ args.max_rows < Len(rows) THEN args.max_rows ELSE Len(rows)

\* C13. Row conservation: when run() has gone through its loop and returned,
\* processed + skipped equals the number of rows considered.
C13_RowConservation ==
    pc = "done" => totals.processed + totals.skipped = RowsConsidered

\* C14. Sequential truncation: with max-rows N set, no row at a file position
\* greater than N is handed to the executor or written to the audit log.
C14_Truncation ==
    args.max_rows # 0
        => /\ pc \in {"call", "sleep", "record", "checkpoint"} => idx <= args.max_rows
           /\ \A k \in 1..Len(log_file) : log_file[k].rowIndex <= args.max_rows

\* The positions of the input that a reservoir holds.
Positions(res) == {res[s].pos : s \in 1..Len(res)}

\* C15. Reservoir sample size: for a sample size k >= 1 and an input of n
\* rows, whatever the draws, sample_rows returns min(k, n) rows, each the row
\* of the input at its position, no position twice.
C15_SampleSize ==
    (pc = "sampled" /\ sample_size >= 1)
        => /\ Len(reservoir) = IF sample_size < Len(rows) THEN sample_size ELSE Len(rows)
           /\ \A s \in 1..Len(reservoir) :
                 /\ reservoir[s].pos \in 1..Len(rows)
                 /\ reservoir[s].row = rows[reservoir[s].pos]
           /\ \A s, t \in 1..Len(reservoir) :
                 reservoir[s].pos = reservoir[t].pos => s = t

\* A sample of 2 out of 4 rows in which both slots were replaced.
C15_Witness ==
    /\ pc = "sampled" /\ sample_size = 2 /\ Len(rows) = 4
    /\ Positions(reservoir) = {3, 4}

\* The number of draw sequences, and of those that leave position p in the
\* reservoir.
TotalCount == SumCounts(outcomes, DOMAIN outcomes)
InCount(p) == SumCounts(outcomes, {r \in DOMAIN outcomes : p \in Positions(r)})

\* C16. Reservoir uniformity: for a sample size k over n rows, 1 <= k <= n,
\* every input row is in the returned reservoir in the fraction k/n of the
\* equally likely draw sequences.
C16_Uniform ==
    (pc = "sampled" /\ sample_size >= 1 /\ sample_size <= Len(rows))
        => /\ reservoir \in DOMAIN outcomes
           /\ \A p \in 1..Len(rows) : Len(rows) * InCount(p) = sample_size * TotalCount

\* 2 out of 4 rows: 12 draw sequences, each row in 6 of them.
C16_Witness ==
    /\ pc = "sampled" /\ sample_size = 2 /\ Len(rows) = 4
    /\ TotalCount = 12
    /\ \A p \in 1..4 : InCount(p) = 6

\* The states the claim names as eligible for revocation.
C17_Eligible(state) ==
    state \in {"SUBSCRIPTION_STATE_ACTIVE", "SUBSCRIPTION_STATE_IN_GRACE_PERIOD",
               "SUBSCRIPTION_STATE_ON_HOLD", "SUBSCRIPTION_STATE_PAUSED"}

\* C17. Validate routing: the step that records a processed row of a validate
\* run writes the row to exactly one export: to the eligible one if the
\* subscriptionState of its payload is ACTIVE, IN_GRACE_PERIOD, ON_HOLD or
\* PAUSED, else to the ineligible one with the result's status, HTTP status,
\* error type and message; the audit record's eligibleForRevoke is that test;
\* no other step writes an export, and at the end the two exports together
\* hold one row per processed row.
C17_ValidateRouting ==
    /\ [](pc = "done" /\ args.mode = "validate"
            => Len(eligible_file) + Len(ineligible_file) = totals.processed)
    /\ [][IF pc = "record" /\ args.mode = "validate"
          THEN LET state == result.payload.subscriptionState
                   rec == log_file'[Len(log_file')]
               IN /\ rec.eligibleForRevoke = C17_Eligible(state)
                  /\ rec.subscriptionState = state
                  /\ IF C17_Eligible(state)
                     THEN /\ Len(eligible_file') = Len(eligible_file) + 1
                          /\ SubSeq(eligible_file', 1, Len(eligible_file)) = eligible_file
                          /\ eligible_file'[Len(eligible_file')].token = token
                          /\ eligible_file'[Len(eligible_file')].subscription_state = state
                          /\ ineligible_file' = ineligible_file
                     ELSE /\ Len(ineligible_file') = Len(ineligible_file) + 1
                          /\ SubSeq(ineligible_file', 1, Len(ineligible_file))
                                = ineligible_file
                          /\ LET row == ineligible_file'[Len(ineligible_file')]
                             IN /\ row.token = token
                                /\ row.subscription_state = state
                                /\ row.status = result.status
                                /\ row.http_status = result.http_status
                                /\ row.error_type = result.error_type
                                /\ row.message = result.message
                          /\ eligible_file' = eligible_file
          ELSE /\ eligible_file' = eligible_file
               /\ ineligible_file' = ineligible_file]_vars

\* A validate run that found a paused subscription and then failed to fetch
\* the next one.
C17_Witness ==
    /\ pc = "done" /\ args.mode = "validate"
    /\ Len(eligible_file) = 1 /\ Len(ineligible_file) = 1
    /\ eligible_file[1].subscription_state = "SUBSCRIPTION_STATE_PAUSED"
    /\ ineligible_file[1].status = "failure"
    /\ ineligible_file[1].http_status = 404
    /\ log_file[1].eligibleForRevoke /\ ~log_file[2].eligibleForRevoke

\* The one verb the claim allows in each mode.
C18_ModeVerb ==
    CASE args.mode = "cancel" -> "cancel"
      [] args.mode = "revoke-prorated" -> "revoke"
      [] args.mode = "validate" -> "get"

\* C18. Mode dispatch: the mode does not change during a run, and the only
\* remote verb invoked in the run is the mode's: cancel in cancel mode, revoke
\* in revoke-prorated mode, get in validate mode.
C18_ModeDispatch ==
    /\ [](verbs \subseteq {C18_ModeVerb})
    /\ [](args.mode = "validate" => "cancel" \notin verbs /\ "revoke" \notin verbs)
    /\ [][args'.mode = args.mode]_vars

\* A validate run that fetched two rows, one of them twice.
C18_Witness ==
    /\ pc = "done" /\ args.mode = "validate"
    /\ verbs = {"get"}
    /\ totals.processed = 2
    /\ \E t \in Tokens : remote_calls[t] >= 2

\* C19. Per-row ordering of side effects in a run that is not a dry run: a
\* remote call is only made by the executor of the row in hand, before that
\* row's audit record exists; the record is written (and is in the file) when
\* the executor has returned, and the step after it is the checkpoint step,
\* which appends the token of the row whose record is the last of the log;
\* only then does the loop move to the next row, rows being taken one at a
\* time in source order.
C19_RowOrdering ==
    /\ [](~args.dry_run
            => /\ pc \in {"call", "sleep", "record"}
                    => /\ Len(log_file) = totals.processed - 1
                       /\ \A k \in 1..Len(log_file) : log_file[k].rowIndex < idx
               /\ pc = "checkpoint"
                    => /\ Len(log_file) = totals.processed
                       /\ LastRecord.rowIndex = idx
                       /\ LastRecord.purchaseToken = token)
    /\ [][~args.dry_run
            => /\ remote_calls' # remote_calls
                    => /\ pc = "call"
                       /\ remote_calls' = [remote_calls EXCEPT ![token] = @ + 1]
                       /\ pc' \in {"sleep", "record"}
               /\ pc' = "call" => pc \in {"loop", "sleep"}
               /\ pc = "sleep" => pc' = "call"
               /\ pc = "record" => pc' = "checkpoint" /\ log_file' # log_file
               /\ log_file' # log_file => pc = "record"
               /\ pc = "checkpoint" => pc' = "loop"
               /\ success_file' # success_file
                    => /\ pc = "checkpoint" /\ LastRecord.status = "success"
                       /\ success_file' = success_file \o token \o <<"\n">>
                       /\ failed_file' = failed_file
               /\ failed_file' # failed_file
                    => /\ pc = "checkpoint" /\ LastRecord.status = "failure"
                       /\ failed_file' = failed_file \o token \o <<"\n">>
                       /\ success_file' = success_file
               /\ idx' # idx => pc = "loop" /\ idx' = idx + 1]_vars

\* Both checkpoint files in use: row 1 failed after a retry and went to the
\* failure checkpoint, row 2 succeeded and went to the success checkpoint.
C19_Witness ==
    /\ pc = "done" /\ ~args.dry_run
    /\ args.checkpoint_success /\ args.checkpoint_failed
    /\ Len(log_file) = 2
    /\ log_file[1].status = "failure" /\ log_file[1].attempts = 2
    /\ log_file[2].status = "success"
    /\ failed_file = log_file[1].purchaseToken \o <<"\n">>
    /\ loaded_tokens = {}
    /\ success_file = log_file[2].purchaseToken \o <<"\n">>

\* The configuration errors the claim names.
C20_ConfigError ==
    \/ {"purchaseToken", "purchase_token", "token"} \cap fieldnames = {}
    \/ args.mode = "revoke-prorated" /\ "subscription_state" \notin fieldnames
    \/ args.package_name = <<>> /\ "package" \notin fieldnames

\* C20. Fatal start-up errors: when the token column cannot be resolved, when
\* the mode is revoke-prorated and there is no subscription_state column, when
\* there is neither a run-level package name nor a package column, or when
\* building the client raises, run() returns a non-zero exit code from its
\* start-up; a run that ended that way has read no row, made no remote call,
\* opened no log, written no audit record and appended nothing to a
\* checkpoint file.
C20_FatalStartup ==
    /\ [][/\ (pc = "start" /\ (C20_ConfigError \/ service' = "raised"))
               => pc' = "exit" /\ exit_code' # 0
          /\ pc = "start"
               => /\ success_file' = success_file
                  /\ failed_file' = failed_file
          /\ pc # "exit"]_vars
    /\ [](pc = "exit"
            => /\ exit_code # 0
               /\ C20_ConfigError \/ service = "raised"
               /\ idx = 0 /\ totals = ZeroTotals
               /\ verbs = {} /\ \A t \in Tokens : remote_calls[t] = 0
               /\ log_path = <<>> /\ log_file = <<>>
               /\ failed_file = <<>>)

\* A revoke run on a file without subscription_state column, the client built
\* and both checkpoint files configured, the success checkpoint not empty.
C20_Witness ==
    /\ pc = "exit" /\ exit_code = 2
    /\ args.mode = "revoke-prorated" /\ service = "service"
    /\ fieldnames = {"purchaseToken", "package"}
    /\ args.package_name # <<>>
    /\ Len(rows) = 2 /\ success_file # <<>>

\* The four row-level skip conditions, read off the row the loop is about to
\* take: its token cell, the package column (when the header has one) and the
\* run-level package name.
C21_Row == rows[idx + 1]
C21_HasPackageColumn == "package" \in fieldnames
C21_Resolved ==
    IF C21_HasPackageColumn /\ C21_Row.package # <<>>
    THEN Strip(C21_Row.package) ELSE args.package_name
C21_EmptyToken == Strip(C21_Row.token) = <<>>
C21_Checkpointed == Strip(C21_Row.token) \in processed_tokens
C21_Unresolved == C21_Resolved = <<>>
C21_Mismatch == args.package_name # <<>> /\ C21_Resolved # args.package_name

\* C21. Row-level skips are side-effect free: the step that takes a row with
\* an empty token, an already-checkpointed token, an unresolved package or a
\* package mismatch (the max-rows cap not yet hit) adds one to skipped and
\* leaves every other counter, the remote calls, the audit log, the exports,
\* both checkpoint files and the success set as they are; the loop is at its
\* head for the next row.
C21_SkipsAreFree ==
    [][(/\ pc = "loop" /\ idx < Len(rows) /\ ~CapReached
        /\ (C21_EmptyToken \/ C21_Checkpointed \/ C21_Unresolved \/ C21_Mismatch))
         => /\ totals' = [totals EXCEPT !.skipped = @ + 1]
            /\ remote_calls' = remote_calls
            /\ verbs' = verbs
            /\ log_file' = log_file
            /\ eligible_file' = eligible_file
            /\ ineligible_file' = ineligible_file
            /\ success_file' = success_file
            /\ failed_file' = failed_file
            /\ processed_tokens' = processed_tokens
            /\ idx' = idx + 1
            /\ pc' = "loop"]_vars

\* Row 1 was processed to success; row 2, with a token of its own kind but
\* another package than the run-level one, was skipped as a mismatch.
C21_Witness ==
    /\ pc = "loop" /\ idx = 2
    /\ args.package_name = <<"p">> /\ "package" \in fieldnames
    /\ Strip(rows[2].token) # <<>> /\ Strip(rows[2].token) \notin processed_tokens
    /\ Strip(rows[2].package) = <<"q">>
    /\ totals.processed = 1 /\ totals.success = 1 /\ totals.skipped = 1
    /\ Len(log_file) = 1

\* The error kinds of a permanent remote error.
C22_PermanentKinds == {"already_cancelled", "not_found", "permission", "other"}

\* The executor returned a failure for the row in hand and the outcome is
\* about to be counted.
C22_FailureToCount == pc = "record" /\ result.status = "failure"

C23_Scenario ==
    /\ pc = "loop" /\ idx = 3 /\ Len(log_file) = 3
    /\ args.retries >= 1
    /\ log_file[1].status = "success" /\ log_file[1].attempts = 1
    /\ log_file[2].status = "success" /\ log_file[2].attempts = 2
    /\ log_file[3].status = "failure" /\ log_file[3].httpStatus = 404
    /\ log_file[3].attempts = 1

C24_CliWins ==
    pc = "merged"
        => \A k \in Options :
             namespace[k] = IF k \in DOMAIN argv THEN argv[k]
                            ELSE IF k \in DOMAIN cfg /\ cfg[k] # None THEN cfg[k]
                            ELSE DEFAULTS(k)

\* The tokens of the failure checkpoint file, read as a checkpoint is read.
C25_FailedTokens == load_checkpoint(TRUE, failed_file)

\* C25. The failure checkpoint is for follow-up only. In a live run with a
\* failure checkpoint configured, the checkpoint step of a processed row
\* appends the row's token to the failure checkpoint when the outcome is not
\* success and leaves the file alone when it is; no other step writes to it.
\* A row whose token is in the failure checkpoint, whether appended by this
\* run or left by an earlier one, and which none of the four skip conditions
\* holds for, is not skipped: it is counted as processed and, the run being
\* live, goes to the remote call.
C25_FollowUpOnly ==
    [][/\ (pc = "checkpoint" /\ ~args.dry_run /\ args.checkpoint_failed)
          => failed_file' = IF result.status # "success"
                            THEN failed_file \o token \o <<"\n">>
                            ELSE failed_file
       /\ pc # "checkpoint" => failed_file' = failed_file
       /\ (/\ pc = "loop" /\ idx < Len(rows) /\ ~CapReached
           /\ Strip(C21_Row.token) \in C25_FailedTokens
           /\ ~(C21_EmptyToken \/ C21_Checkpointed \/ C21_Unresolved \/ C21_Mismatch))
          => /\ totals' = [totals EXCEPT !.processed = @ + 1]
             /\ token' = Strip(C21_Row.token)
             /\ ~args.dry_run => pc' = "call"]_vars

\* The failure checkpoint held token a from an earlier run; this run called
\* the remote operation for it again, failed again and appended it again,
\* then called it once more for the next row with the same token.
C25_Witness ==
    /\ pc = "record" /\ idx = 2
    /\ ~args.dry_run
    /\ token = <<"a">>
    /\ failed_file = <<"a", "\n", "a", "\n">>
    /\ remote_calls[token] >= 2
    /\ totals.processed = 2 /\ totals.skipped = 0

\* C26. A crash loses at most one audit record. At every point of a run,
\* terminated or not, the audit log file holds processed or processed - 1
\* records; it holds processed - 1 only while the last processed row is in
\* flight (between its dispatch and its record), and its records are those of
\* the processed rows, in row order: a termination at any point leaves a
\* record for every row whose processing had completed.
C26_CrashLosesOne ==
    /\ [](/\ Len(log_file) \in {totals.processed, totals.processed - 1}
          /\ pc \in {"loop", "checkpoint", "done"} => Len(log_file) = totals.processed
          /\ \A i \in 1..Len(log_file) :
                /\ log_file[i].rowIndex \in 1..idx
                /\ log_file[i].purchaseToken = Strip(rows[log_file[i].rowIndex].token)
                /\ \A j \in 1..(i - 1) : log_file[j].rowIndex < log_file[i].rowIndex)
    /\ [][(pc' = "killed" /\ pc \in {"loop", "checkpoint"})
             => /\ log_file' = log_file
                /\ Len(log_file') = totals'.processed]_vars

\* The run was terminated while its second row was in flight: the log holds
\* the first row's record and nothing of the second.
C26_Witness ==
    /\ pc = "killed"
    /\ totals.processed = 2 /\ inv_calls >= 1
    /\ Len(log_file) = 1
    /\ log_file[1].rowIndex = 1

\* The valid tokens of the input: stripped and not empty (the package of
\* every row is the run-level one here).
C27_ValidTokens == {Strip(rows[i].token) : i \in 1..Len(rows)} \ {<<>>}

\* C27. Resume after termination. In the second of two live invocations with
\* a success checkpoint, the first one terminated at any point or run to its
\* end: no remote call is made for a token the first invocation appended to
\* the checkpoint; when the second invocation has gone through the whole
\* input, it has called every valid token the first one did not append; and
\* a token whose row ended in success in both invocations is one the first
\* invocation did not append (it was terminated between the remote success
\* and the append).
C27_Resume ==
    (run_no = 2 /\ ~args.dry_run /\ args.checkpoint_success)
        => /\ \A t \in prev_checkpointed : remote_calls[t] = 0
           /\ (pc = "done" /\ args.max_rows = 0 /\ args.retries >= 0)
                 => \A t \in C27_ValidTokens \ prev_checkpointed : remote_calls[t] >= 1
           /\ \A t \in prev_success \cap run_success : t \notin prev_checkpointed

\* The Result Classifier as the rules give it, in their priority order, for
\* a status and a message.
C28_Classifier(status, message) ==
    LET l == Lower(message) IN
    IF RuleAlready(l) THEN "AlreadyInTargetState"
    ELSE IF RuleNotFound(l) THEN "NotFound"
    ELSE IF RulePermission(l) THEN "PermissionDenied"
    ELSE IF status \in RETRY_STATUS THEN "TransientServer"
    ELSE "Other"

\* A call of the executor has just failed with an HTTP error.
C28_HttpFailed == pc = "call" /\ response'.kind = "http"

\* C28 as stated. Retry eligibility agrees with the classifier: a call that
\* failed with an HTTP error is retried (the executor goes to its sleep) if
\* and only if attempts remain and the classifier maps its status and message
\* to TransientServer; a retryable status with an already-cancelled message
\* is returned without a retry.
C28_RetryByClassifier ==
    [][C28_HttpFailed
         => (pc' = "sleep"
               <=> /\ attempt <= args.retries
                   /\ C28_Classifier(response'.status, response'.message)
                         = "TransientServer")]_vars

\* C28 as the code has it. A call that failed with an HTTP error is retried
\* if and only if attempts remain and its status is in the retry set,
\* whatever its message; the message is classified only when the executor
\* returns the failure, so a retryable status with an already-cancelled
\* message is retried while attempts remain and returned as already
\* cancelled after the last one.
C28_RetryByStatus ==
    [][C28_HttpFailed
         => /\ pc' = "sleep"
                 <=> (attempt <= args.retries /\ response'.status \in RETRY_STATUS)
            /\ pc' # "sleep"
                 => /\ pc' = "record"
                    /\ result'.status = "failure"
                    /\ result'.error_type = classify_error(response'.message)]_vars

\* A 429 whose message says already cancelled was answered by a sleep; the
\* retry failed the same way and was returned as already cancelled.
C28_Witness ==
    /\ pc = "record"
    /\ inv_sleeps = 1 /\ inv_calls = 2
    /\ response.kind = "http" /\ response.status = 429
    /\ C28_Classifier(response.status, response.message) = "AlreadyInTargetState"
    /\ result.error_type = "already_cancelled" /\ result.attempts = 2

\* C29. Backoff schedule. Within one invocation of the executor there is one
\* sleep between two consecutive remote calls and none after the terminal
\* call; the sleep after failed attempt a lasts backoff * 2^(a-1) plus a
\* jitter between 0 and the --jitter value; and, the backoff not being
\* negative, the delays before jitter do not decrease and each is twice the
\* one before.
C29_BackoffSchedule ==
    /\ Len(delays) = inv_sleeps
    /\ pc = "call" => inv_calls = Len(delays)
    /\ pc = "sleep" => inv_calls = Len(delays) + 1
    /\ (pc \in {"record", "checkpoint"} /\ inv_calls > 0) => Len(delays) = inv_calls - 1
    /\ \A a \in 1..Len(delays) :
          /\ delays[a].attempt = a
          /\ delays[a].base = backoff * (2 ^ (a - 1))
          /\ delays[a].delay - delays[a].base \in 0..jitter
    /\ backoff >= 0
          => \A a \in 1..(Len(delays) - 1) :
                /\ delays[a].base <= delays[a + 1].base
                /\ delays[a + 1].base = 2 * delays[a].base

\* The executor returned after three calls and two sleeps, the second sleep
\* twice the first before jitter and as long as the first after it.
C29_Witness ==
    /\ pc = "record" /\ inv_calls = 3
    /\ Len(delays) = 2
    /\ backoff = 1 /\ jitter = 1
    /\ delays[1].base = 1 /\ delays[2].base = 2
    /\ delays[1].delay = 2 /\ delays[2].delay = 2

\* The package cell of the row the loop is about to take is present: the
\* header has the package column and the cell is not empty.
C30_CellPresent == C21_HasPackageColumn /\ C21_Row.package # <<>>

\* C30. Package resolution. The step that takes a row for processing hands
\* the executor the row's package cell (stripped) when the cell is present
\* and the run-level package name otherwise, and the executor's calls and
\* sleeps keep that package. With a run-level package name configured, the
\* step that takes a row whose resolved package differs from it adds one to
\* skipped and makes no remote call, and every remote call of the run is made
\* with the run-level package name.
C30_PackageResolution ==
    /\ [][/\ (pc = "loop" /\ pc' \in {"call", "record"})
              => package_name' = IF C30_CellPresent THEN Strip(C21_Row.package)
                                 ELSE args.package_name
          /\ pc \in {"call", "sleep"} => package_name' = package_name
          /\ (/\ pc = "loop" /\ idx < Len(rows) /\ ~CapReached
              /\ args.package_name # <<>>
              /\ (IF C30_CellPresent THEN Strip(C21_Row.package) ELSE args.package_name)
                     # args.package_name)
              => /\ totals' = [totals EXCEPT !.skipped = @ + 1]
                 /\ remote_calls' = remote_calls
                 /\ pc' = "loop"]_vars
    /\ []((pc \in {"call", "sleep"} /\ args.package_name # <<>>)
              => package_name = args.package_name)
    /\ [](pc \in {"call", "sleep"} => package_name # <<>>)

\* With a run-level package name, row 1 named another package in its cell
\* and was skipped; row 2 has an empty cell and is at its remote call with
\* the run-level package.
C30_Witness ==
    /\ pc = "call" /\ idx = 2
    /\ args.package_name = <<"p">> /\ "package" \in fieldnames
    /\ Strip(rows[1].token) # <<>> /\ rows[1].package = <<"q">>
    /\ rows[2].package = <<>>
    /\ totals.skipped = 1 /\ totals.processed = 1
    /\ package_name = <<"p">>

\* C31. Termination. The invocation reaches the end of run(): it returns.
\* On the way, an executor invocation makes at most retries + 1 remote calls
\* for a retry count retries >= 0 (and none for a negative one) and always
\* leaves the call and the sleep for the record of its result; every row
\* the loop has taken has been counted exactly once, in skipped or in
\* processed, a processed row has one audit record, and the step that ends
\* the loop counts nothing.
C31_Termination ==
    /\ <>(pc \in {"done", "exit"})
    /\ [](pc \in {"call", "sleep"} ~> pc = "record")
    /\ [](inv_calls <= (IF args.retries >= 0 THEN args.retries + 1 ELSE 0))
    /\ [](pc \in {"loop", "call", "sleep", "record", "checkpoint"}
              => /\ totals.processed + totals.skipped = idx
                 /\ Len(log_file) = totals.processed - (IF pc \in {"call", "sleep", "record"}
                                                         THEN 1 ELSE 0))
    /\ [][/\ pc' = "done" => totals' = totals /\ log_file' = log_file
          /\ (pc = "loop" /\ pc' # "done")
                => \/ /\ totals'.skipped = totals.skipped + 1
                       /\ totals'.processed = totals.processed
                       /\ remote_calls' = remote_calls
                   \/ /\ totals'.processed = totals.processed + 1
                       /\ totals'.skipped = totals.skipped
          /\ pc # "loop" => /\ totals'.processed = totals.processed
                            /\ totals'.skipped = totals.skipped]_vars

\* The run has returned: row 1 used up its retries + 1 = 2 calls on
\* retryable failures, row 2 was skipped.
C31_Witness ==
    /\ pc = "done" /\ args.retries = 1 /\ ~args.dry_run
    /\ Len(rows) = 2 /\ idx = 2
    /\ totals.processed = 1 /\ totals.skipped = 1
    /\ log_file[1].rowIndex = 1 /\ log_file[1].attempts = 2
    /\ log_file[1].httpStatus \in RETRY_STATUS

\* Rows handed to an executor or to the dry-run branch so far: those with an
\* audit record and the one in hand, if any.
C32_Dispatched ==
    Len(log_file) + (IF pc \in {"call", "sleep", "record"} THEN 1 ELSE 0)

\* C32. Max-rows cap on effects: with --max-rows N >= 1, at every point of
\* the run (also one that is terminated) processed is at most N, at most N
\* rows have been handed to the remote operation, at most N audit records
\* are written, and a remote call is only made for a row counted in
\* processed.
C32_MaxRowsCap ==
    args.max_rows >= 1
        => /\ totals.processed <= args.max_rows
           /\ C32_Dispatched <= args.max_rows
           /\ Len(log_file) <= args.max_rows
           /\ Len(eligible_file) + Len(ineligible_file) <= args.max_rows
           /\ pc \in {"call", "sleep"} => totals.processed = Len(log_file) + 1

\* With --max-rows at its largest value and one row more than that in the
\* input, all with a token, the loop broke at the last row: max-rows rows
\* were processed and logged, the last one was not.
C32_Witness ==
    /\ pc = "done" /\ args.max_rows = MaxRows - 1 /\ ~args.dry_run
    /\ Len(rows) = MaxRows /\ idx = MaxRows
    /\ \A k \in 1..Len(rows) : Strip(rows[k].token) # <<>>
    /\ totals.processed = args.max_rows /\ totals.skipped = 0
    /\ Len(log_file) = args.max_rows

\* The five outcome counters and their sum.
C33_Outcomes ==
    {"success", "dry_run", "already_cancelled", "failed_transient", "failed_permanent"}
C33_Sum(t) ==
    t.success + t.dry_run + t.already_cancelled + t.failed_transient + t.failed_permanent

\* C33. Outcome counters partition processed: whenever no row is in hand
\* (and after the row's record is written) processed equals the sum of the
\* five outcome counters, and while a row is in hand (also in a run that was
\* terminated with a row in hand) it is one more; the step that records a
\* row's outcome adds one to exactly one of the five counters and no other
\* step changes any of them; already_cancelled stays 0 in validate mode.
C33_Partition ==
    /\ [](pc \in {"start", "loop", "checkpoint", "done", "exit", "killed"}
              => \/ totals.processed = C33_Sum(totals)
                 \/ pc = "killed" /\ totals.processed = C33_Sum(totals) + 1)
    /\ [](pc \in {"call", "sleep", "record"} => totals.processed = C33_Sum(totals) + 1)
    /\ [](args.mode = "validate" => totals.already_cancelled = 0)
    /\ [][IF pc = "record" /\ pc' # "killed"
          THEN \E c \in C33_Outcomes :
                  /\ totals'[c] = totals[c] + 1
                  /\ \A d \in C33_Outcomes \ {c} : totals'[d] = totals[d]
          ELSE \A d \in C33_Outcomes : totals'[d] = totals[d]]_vars

\* A validate run whose first row failed with an already-cancelled message
\* and whose second succeeded: the failure is counted in failed_permanent.
C33_Witness ==
    /\ pc = "done" /\ args.mode = "validate" /\ ~args.dry_run
    /\ totals.processed = 2 /\ totals.success = 1 /\ totals.failed_permanent = 1
    /\ log_file[1].errorType = "already_cancelled"
    /\ log_file[2].status = "success"

\* C34. The checkpoint is keyed by the token alone: in a cancel or
\* revoke-prorated invocation that follows a validate invocation over the
\* same input and success checkpoint file, no remote call is made for a
\* token whose row ended in success in the validate invocation.
C34_TokenKey ==
    (run_no = 2 /\ args.mode # "validate")
        => \A t \in prev_success : remote_calls[t] = 0

\* C35. Success checkpoint soundness: the success checkpoint file changes
\* only by the checkpoint step of a live run with the file configured, for
\* a row whose executor returned success and whose success record is the last
\* one of the audit log; the step appends the row's token and a line end,
\* and the token was not appended before in this run. In a dry run nothing
\* is ever appended.
C35_Soundness ==
    /\ [][success_file' # success_file
            => /\ pc = "checkpoint"
               /\ args.checkpoint_success /\ ~args.dry_run
               /\ result.status = "success"
               /\ response.kind = "ok"
               /\ remote_calls[token] >= 1
               /\ Len(log_file) >= 1
               /\ LastRecord.purchaseToken = token
               /\ LastRecord.status = "success"
               /\ LastRecord.rowIndex = idx
               /\ token \notin checkpointed
               /\ success_file' = success_file \o token \o <<"\n">>]_vars
    /\ [](checkpointed \subseteq run_success)

\* Rows 1 and 2 carry the same token: row 1 succeeded and its token was
\* appended to the checkpoint, row 2 was skipped and the file has the token
\* once.
C35_Witness ==
    /\ pc = "loop" /\ idx = 2 /\ args.checkpoint_success
    /\ Strip(rows[1].token) = token /\ Strip(rows[2].token) = token
    /\ token # <<>> /\ token \notin loaded_tokens
    /\ checkpointed = {token}
    /\ totals.success = 1 /\ totals.skipped = 1
    /\ success_file = token \o <<"\n">>

\* The package cell of the row the loop is about to take holds no package:
\* the column is absent, or the cell is empty or whitespace only.
C36_NoPackageInRow == ~C21_HasPackageColumn \/ Strip(C21_Row.package) = <<>>

\* C36. The run-level package is a sufficient fallback: with a run-level
\* package name configured, the step that takes a row with a token that is
\* not yet in the success set and with no package of its own (the max-rows
\* cap not yet hit) counts the row as processed, not as skipped, and hands
\* it on with the run-level package name.
C36_Fallback ==
    [][(/\ pc = "loop" /\ idx < Len(rows) /\ ~CapReached
        /\ args.package_name # <<>>
        /\ ~C21_EmptyToken /\ ~C21_Checkpointed
        /\ C36_NoPackageInRow)
         => /\ totals'.processed = totals.processed + 1
            /\ totals'.skipped = totals.skipped
            /\ package_name' = args.package_name]_vars

\* C37. Validate dry-run routing: in a validate run with dry-run set no
\* remote call is made and the eligible export stays empty; the result of
\* a row in hand is dry_run with 0 attempts and no payload; the ineligible
\* export holds one row per processed row (one less while the row in hand is
\* not yet written), in processing order, each with status dry_run, no
\* subscription state, no HTTP status and the token and package of the audit
\* record at the same place, which has status dry_run and 0 attempts.
C37_DryRunRouting ==
    (args.mode = "validate" /\ args.dry_run)
        => /\ eligible_file = <<>>
           /\ \A t \in Tokens : remote_calls[t] = 0
           /\ pc \notin {"call", "sleep"}
           /\ pc \in {"record", "checkpoint"}
                 => /\ result.status = "dry_run"
                    /\ result.attempts = 0
                    /\ result.payload = NoPayload
           /\ pc \in {"loop", "checkpoint", "done"}
                 => Len(ineligible_file) = totals.processed
           /\ pc = "record" => Len(ineligible_file) = totals.processed - 1
           /\ Len(ineligible_file) \in {totals.processed - 1, totals.processed}
           /\ Len(ineligible_file) = Len(log_file)
           /\ totals.dry_run = Len(log_file)
           /\ \A k \in 1..Len(ineligible_file) :
                 /\ ineligible_file[k].status = "dry_run"
                 /\ ineligible_file[k].subscription_state = None
                 /\ ineligible_file[k].http_status = NoStatus
                 /\ ineligible_file[k].token = log_file[k].purchaseToken
                 /\ ineligible_file[k].token = Strip(rows[log_file[k].rowIndex].token)
                 /\ ineligible_file[k].package = log_file[k].package
                 /\ log_file[k].status = "dry_run"
                 /\ log_file[k].attempts = 0
                 /\ ~log_file[k].eligibleForRevoke

\* A validate dry run over two rows with tokens has ended: both rows are in
\* the ineligible export with status dry_run, none in the eligible one.
C37_Witness ==
    /\ pc = "done" /\ args.mode = "validate" /\ args.dry_run
    /\ Len(rows) = 2 /\ totals.processed = 2 /\ totals.dry_run = 2
    /\ Len(ineligible_file) = 2 /\ eligible_file = <<>>
    /\ ineligible_file[1].status = "dry_run" /\ ineligible_file[2].status = "dry_run"

====
